---- MODULE Spec2Model ----
(***************************************************************************)
(* A model of the asynchronous runtime of LEAVING-7/io: the Reactor (fd    *)
(* parking slots, timer map, timer-op queue, react) and the executors that *)
(* drive it.  Time is counted in nanoseconds.                              *)
(***************************************************************************)
EXTENDS Integers, Sequences, FiniteSets, TLC

\* ------------------------------------------------------------------ bounds
NumSources == 1
MaxTimers == 2
MaxTime == 2
MaxTicks == 2
MaxOps == 2
MaxReacts == 2
MaxSlab == 3
\* the thread limit of the blocking pool (500 in blockSpawn) and the handles
\* passed to it
BpLimit == 2
MaxJobs == 6
\* the handles passed to the worker pool
MaxPoolTasks == 2

\* ------------------------------------------------------- program constants
\* std::nullopt of an optional duration
NULLOPT == -1
\* the null coroutine handle (Direction::handle {nullptr})
NULL == "null"

Keys == 1..NumSources
Dirs == {"read", "write"}
Handles == {"h1", "h2"}
Threads == {"t1", "t2"}
NoThread == "none"
Delays == {0, 2}
Timeouts == {NULLOPT, 1}
NoRet == [op |-> "none"]
Tasks == {"top", "a", "b"}
Workers == {"w1", "w2"}
\* the thread that calls block
Main == "t1"
\* the thread of the blocking pool
Pool == "p1"
\* the threads that can run task code under the InlineExecutor
RunThreads == {Main, Pool}
\* Slab keys and the fds of the process; NoKey / NoFd mark a vacant entry
SlabKeys == 1..MaxSlab
Fds == 1..MaxSlab
NoKey == 0
NoFd == 0
\* the task that asks for the i-th timer
Sleeper(i) == IF i % 2 = 0 THEN "h1" ELSE "h2"

VARIABLES
  mSources,    \* Reactor::mSources: the keys that hold a Source
  slots,       \* Source::state of every key: [read, write] parking slots
  interest,    \* poller: the interest mask registered per key
  fdReady,     \* OS: the directions in which each fd is ready
  oneshot,     \* poller: whether a delivered event disarms the registration
  notified,    \* poller: a self-wake is pending
  mEvents,     \* Reactor::mEvents, the event buffer of the last wait
  mTimerOps,   \* Reactor::mTimerOps, the queue of timer ops
  mTimers,     \* Reactor::mTimers, entries [when, key, handle]
  idGen,       \* Reactor::insertTimer ID_GENERATOR
  clock,       \* std::chrono::steady_clock::now()
  mTicker,     \* Reactor::mTicker
  mEventLock,  \* Reactor::mEventLock: the thread that holds it
  rpc,         \* where each thread is in lock() / react()
  handles,     \* react's local vector of handles
  waitTimeout, \* react's local waitTimeout
  waitStart,   \* the time at which poller.wait was entered
  execBatch,   \* the vector the last react passed to executor.execute
  ret,         \* what the last step returned to its caller
  issued,      \* history: every timer insertTimer was called for
  observed,    \* history: timer ids a processTimers has seen expired
  cancelled,   \* history: timer ids removed before being seen expired
  timerHanded  \* history: how often each timer id was handed over (0, 1, 2+)

ioVars == <<mSources, slots, interest, fdReady, oneshot>>
timerVars == <<mTimerOps, mTimers, idGen>>
lockVars == <<mEventLock, rpc>>
reactLocals == <<mEvents, mTicker, handles, waitTimeout, waitStart, execBatch>>
histVars == <<issued, observed, cancelled, timerHanded>>

reactorVars == <<ioVars, timerVars, lockVars, reactLocals, histVars, notified,
                 clock, ret>>

VARIABLES
  prog,        \* what each task does: its suspension and spawn points
  tst,         \* each task's coroutine: new, queued, running, suspended, done
  tpos,        \* the next step of each task's body
  mSpawnCount, \* MutilThreadExecutor::mSpawnCount
  promiseSet,  \* block's promise has its value: the future is ready
  mTasks,      \* ThreadPool::mTasks
  wpc,         \* where each pool worker is in ThreadPool::worker
  wcur,        \* the handle each pool worker popped
  bpc,         \* where the thread that called block is
  crashed,     \* a destroyed or running coroutine was resumed and the process died
  waitFailed   \* history: a react returned an OS error to the drive loop

execVars == <<prog, tst, tpos, mSpawnCount, promiseSet, mTasks, wpc, wcur, bpc,
              crashed, waitFailed>>

VARIABLES
  mQueue,         \* InlineExecutor::mQueue
  mBlockingQueue, \* BlockingThreadPool::mQueue: the callers of the queued ContinueTasks
  run,            \* the coroutine each thread is running, NULL if none
  iexec,          \* the handles react has still to pass to InlineExecutor::execute
  fnRuns,         \* history: how often the fn of each task's blockSpawn ran
  result,         \* Awaiter::result of each task's blockSpawn has a value
  resumes,        \* history: how often each task was resumed from its blockSpawn
  touched,        \* history: the threads that accessed mQueue or mSpawnCount
  srcFd,          \* Slab<Source>: the fd of the Source under each key
  pollReg,        \* poller: the key each fd is registered under
  iopc,           \* where each thread is in insertIo
  iokey,          \* insertIo's local key
  iofd,           \* insertIo's argument fd
  ioSynced,       \* history: no parker was installed for the key since its last updateIo
  lkHeld,         \* the thread that holds each mutex of the Reactor, NoThread if free
  lkScript,       \* the lock, unlock and call steps each thread has still to take
  bpQueue,        \* BlockingThreadPool::mQueue
  mIdleCount,     \* BlockingThreadPool::mIdleCount
  mThreadCount,   \* BlockingThreadPool::mThreadCount
  mQueueMt,       \* BlockingThreadPool::mQueueMt: the thread that holds it
  bpPc,           \* where the caller of execute and each pool thread are
  bpCur,          \* the handle each pool thread popped
  bpTimedOut,     \* wait_for of each pool thread returned cv_status::timeout
  bpJob,          \* history: each handle is new, queued, running or done
  bpPops,         \* history: how often each handle was popped (0, 1, 2+)
  bpRaced,        \* history: a push found a worker between its timeout and its relock
  tpQueue,        \* ThreadPool::mTasks
  mTaskTotal,     \* ThreadPool::mTaskTotal
  mTaskMt,        \* ThreadPool::mTaskMt: the thread that holds it
  mWaiting,       \* ThreadPool::mWaiting
  mRunning,       \* ThreadPool::mRunning
  tpPc,           \* where the workers, the caller of execute and the owner are
  tpCur,          \* the handle a worker popped or execute was called with
  tpJob,          \* history: each handle is new, queued, running or done
  tpReturned,     \* history: the handles whose execute call has returned
  tpDtor,         \* ~ThreadPool has been entered
  tpEarly         \* history: a waitEmpty returned with a handle not yet done

inlVars == <<mQueue, mBlockingQueue, run, iexec, fnRuns, result, resumes, touched>>
slabVars == <<srcFd, pollReg, iopc, iokey, iofd>>
maskVars == <<ioSynced>>
lockOrdVars == <<lkHeld, lkScript>>
bpoolVars == <<bpQueue, mIdleCount, mThreadCount, mQueueMt, bpPc, bpCur, bpTimedOut,
               bpJob, bpPops, bpRaced>>
tpoolVars == <<tpQueue, mTaskTotal, mTaskMt, mWaiting, mRunning, tpPc, tpCur, tpJob,
               tpReturned, tpDtor, tpEarly>>
lateVars == <<maskVars, lockOrdVars, bpoolVars, tpoolVars>>
extVars == <<inlVars, slabVars, lateVars>>

vars == <<reactorVars, execVars, extVars>>

\* the mutexes of the Reactor: mEventLock, mSourceLock, mTimerLock and the
\* stateLock of every Source
EventLock == [n |-> "mEventLock", k |-> 0]
SourceLock == [n |-> "mSourceLock", k |-> 0]
TimerLock == [n |-> "mTimerLock", k |-> 0]
StateLock(k) == [n |-> "stateLock", k |-> k]
Mutexes == {EventLock, SourceLock, TimerLock} \cup {StateLock(k) : k \in Keys}

\* the threads of the blocking pool: the caller of execute, the pool threads
BpCaller == 0
BpWorkers == 1..BpLimit
BpThreads == {BpCaller} \cup BpWorkers
BpNone == -1
Jobs == 1..MaxJobs
NoJob == 0
\* growPool: mQueue.size() > mIdleCount * 5
GrowFactor == 5

\* the threads around the worker pool: its workers, a thread that calls
\* execute, the thread that owns the pool
Producer == "x"
Owner == "m"
TpThreads == Workers \cup {Producer, Owner}
PoolTasks == 1..MaxPoolTasks

\* ----------------------------------------------------------------- helpers
Min(a, b) == IF a <= b THEN a ELSE b

\* (when, key) pairs in std::map order: lexicographic
KeyLess(a, b) == a.when < b.when \/ (a.when = b.when /\ a.key < b.key)

RECURSIVE SortTimers(_)
SortTimers(S) ==
  IF S = {} THEN <<>>
  ELSE LET m == CHOOSE x \in S : \A y \in S \ {x} : KeyLess(x, y)
       IN  <<m>> \o SortTimers(S \ {m})

\* one element of react's handles vector, with where it was taken from
TimerEntry(e) == [h |-> e.handle, src |-> "timer", when |-> e.when, key |-> e.key]
IoEntry(h, k, d) == [h |-> h, src |-> d, when |-> 0, key |-> k]

\* ------------------------------------------------------------------ Source
IsEmpty(st, k, d) == st[k][d] = NULL

\* Direction::takeHandle: std::exchange(handle, nullptr)
TakeHandle(st, k, d) == [h |-> st[k][d], st |-> [st EXCEPT ![k][d] = NULL]]

\* a setReadable / setWritable that installs without looking at the slot
SetSlotOverwrite(k, d, h) ==
  /\ k \in mSources
  /\ slots' = [slots EXCEPT ![k][d] = h]
  /\ ret' = [op |-> "set", key |-> k, dir |-> d, h |-> h, val |-> TRUE]
  /\ UNCHANGED <<mSources, interest, fdReady, oneshot>>
  /\ UNCHANGED <<timerVars, lockVars, reactLocals, histVars, notified, clock>>

\* Source::setReadable / Source::setWritable, under stateLock
SetSlot(k, d, h) ==
  /\ k \in mSources
  /\ IF IsEmpty(slots, k, d)
       THEN /\ slots' = [slots EXCEPT ![k][d] = h]
            /\ ret' = [op |-> "set", key |-> k, dir |-> d, h |-> h, val |-> TRUE]
       ELSE /\ slots' = slots
            /\ ret' = [op |-> "set", key |-> k, dir |-> d, h |-> h, val |-> FALSE]
  /\ UNCHANGED <<mSources, interest, fdReady, oneshot>>
  /\ UNCHANGED <<timerVars, lockVars, reactLocals, histVars, notified, clock>>

SetReadable(k, h) == SetSlot(k, "read", h)
SetWritable(k, h) == SetSlot(k, "write", h)

\* Source::getEvent: the mask of the occupied slots
GetEvent(k) == {d \in Dirs : ~IsEmpty(slots, k, d)}

\* Reactor::updateIo, under mSourceLock: poller.mod(fd, getEvent())
UpdateIo(k) ==
  /\ k \in mSources
  /\ interest' = [interest EXCEPT ![k] = GetEvent(k)]
  /\ ret' = NoRet
  /\ UNCHANGED <<mSources, slots, fdReady, oneshot>>
  /\ UNCHANGED <<timerVars, lockVars, reactLocals, histVars, notified, clock>>

\* the OS makes fd k ready in direction d
FdReady(k, d) ==
  /\ d \notin fdReady[k]
  /\ fdReady' = [fdReady EXCEPT ![k] = @ \cup {d}]
  /\ ret' = NoRet
  /\ UNCHANGED <<mSources, slots, interest, oneshot>>
  /\ UNCHANGED <<timerVars, lockVars, reactLocals, histVars, notified, clock>>

\* time passes
Tick ==
  /\ clock < MaxTime
  /\ clock' = clock + 1
  /\ ret' = NoRet
  /\ UNCHANGED <<ioVars, timerVars, lockVars, reactLocals, histVars, notified>>

\* Reactor::notify: poller.notify()
Notify ==
  /\ notified' = TRUE
  /\ ret' = NoRet
  /\ UNCHANGED <<ioVars, timerVars, lockVars, reactLocals, histVars, clock>>

\* ------------------------------------------------------------------ timers
\* Reactor::insertTimer: fetch_add on ID_GENERATOR, emplace Insert, notify()
InsertTimer(when, h) ==
  /\ idGen < MaxTimers
  /\ Len(mTimerOps) < MaxOps
  /\ idGen' = idGen + 1
  /\ mTimerOps' = Append(mTimerOps,
                    [op |-> "insert", key |-> idGen, when |-> when, handle |-> h])
  /\ notified' = TRUE
  /\ issued' = issued \cup {[when |-> when, key |-> idGen, handle |-> h]}
  /\ ret' = [op |-> "insertTimer", val |-> idGen]
  /\ UNCHANGED <<ioVars, mTimers, lockVars, reactLocals, observed, cancelled,
                 timerHanded, clock>>

\* Reactor::removeTimer: emplace Remove (no notify)
RemoveTimer(when, id) ==
  /\ Len(mTimerOps) < MaxOps
  /\ mTimerOps' = Append(mTimerOps,
                    [op |-> "remove", key |-> id, when |-> when, handle |-> NULL])
  /\ cancelled' = IF /\ \E e \in issued : e.key = id /\ e.when = when
                     /\ id \notin observed
                    THEN cancelled \cup {id} ELSE cancelled
  /\ ret' = NoRet
  /\ UNCHANGED <<ioVars, mTimers, idGen, lockVars, reactLocals, issued, observed,
                 timerHanded, notified, clock>>

\* one TimerOp applied to the map: std::map::insert keeps an existing entry,
\* std::map::erase removes the entry with exactly that (when, key)
ApplyTimerOp(timers, o) ==
  IF o.op = "insert"
    THEN IF \E e \in timers : e.when = o.when /\ e.key = o.key
           THEN timers
           ELSE timers \cup {[when |-> o.when, key |-> o.key, handle |-> o.handle]}
    ELSE {e \in timers : ~(e.when = o.when /\ e.key = o.key)}

\* a processTimeOps that pops the newest op first
RECURSIVE ProcessTimeOpsLifo(_, _)
ProcessTimeOpsLifo(timers, ops) ==
  IF ops = <<>> THEN timers
  ELSE ProcessTimeOpsLifo(ApplyTimerOp(timers, ops[Len(ops)]), SubSeq(ops, 1, Len(ops) - 1))

\* Reactor::processTimeOps: pop until the queue is empty, in queue order
RECURSIVE ProcessTimeOps(_, _)
ProcessTimeOps(timers, ops) ==
  IF ops = <<>> THEN timers
  ELSE ProcessTimeOps(ApplyTimerOp(timers, Head(ops)), Tail(ops))

\* the duration processTimers returns, now being steady_clock::now() + 1ns
TimerDuration(ready, pending, now) ==
  IF ready = {}
    THEN IF pending # {}
           THEN LET first == CHOOSE e \in pending : \A y \in pending : e.when <= y.when
                IN  IF first.when - now < 0 THEN 0 ELSE first.when - now
           ELSE 0
    ELSE NULLOPT

\* Reactor::processTimers(handles): the new map, the handles vector with the
\* ready entries appended in map order, and the duration returned
ProcessTimers(hs) ==
  LET timers  == ProcessTimeOps(mTimers, mTimerOps)
      now     == clock + 1
      ready   == {e \in timers : e.when <= now}
      pending == timers \ ready
      order   == SortTimers(ready)
  IN  [timers   |-> timers,
       hs       |-> hs \o [i \in 1..Len(order) |-> TimerEntry(order[i])],
       ready    |-> {e.key : e \in ready},
       duration |-> TimerDuration(ready, pending, now)]

\* history of what a react handed over, hs being the vector passed to execute
Bump(n) == IF n < 2 THEN n + 1 ELSE 2
RECURSIVE CountHanded(_, _)
CountHanded(cnt, hs) ==
  IF hs = <<>> THEN cnt
  ELSE LET e == Head(hs)
       IN  CountHanded(IF e.src = "timer" THEN [cnt EXCEPT ![e.key] = Bump(@)] ELSE cnt,
                       Tail(hs))

\* ------------------------------------------------------- lock() / tryLock()
\* Reactor::lock: blocks until mEventLock is free
Lock(t) ==
  /\ rpc[t] = "idle"
  /\ mEventLock = NoThread
  /\ mEventLock' = t
  /\ rpc' = [rpc EXCEPT ![t] = "locked"]
  /\ ret' = NoRet
  /\ UNCHANGED <<ioVars, timerVars, reactLocals, histVars, notified, clock>>

\* a tryLock that hands out a ReactorLock without owning the mutex
TryLockUnowned(t) ==
  /\ rpc[t] = "idle"
  /\ mEventLock' = t
  /\ rpc' = [rpc EXCEPT ![t] = "locked"]
  /\ ret' = [op |-> "tryLock", t |-> t, val |-> TRUE]
  /\ UNCHANGED <<ioVars, timerVars, reactLocals, histVars, notified, clock>>

\* Reactor::tryLock: std::try_to_lock, nullopt when the mutex is held
TryLock(t) ==
  /\ rpc[t] = "idle"
  /\ IF mEventLock = NoThread
       THEN /\ mEventLock' = t
            /\ rpc' = [rpc EXCEPT ![t] = "locked"]
            /\ ret' = [op |-> "tryLock", t |-> t, val |-> TRUE]
       ELSE /\ UNCHANGED <<mEventLock, rpc>>
            /\ ret' = [op |-> "tryLock", t |-> t, val |-> FALSE]
  /\ UNCHANGED <<ioVars, timerVars, reactLocals, histVars, notified, clock>>

\* ~ReactorLock: the unique_lock releases mEventLock
Unlock(t) ==
  /\ rpc[t] = "locked"
  /\ mEventLock' = NoThread
  /\ rpc' = [rpc EXCEPT ![t] = "idle"]
  /\ ret' = NoRet
  /\ UNCHANGED <<ioVars, timerVars, reactLocals, histVars, notified, clock>>

\* ------------------------------------------------------------------- react
\* react's waitTimeout from the caller's timeout and processTimers' duration
ComputeWaitTimeout(timeout, nextTimer) ==
  IF timeout # NULLOPT /\ nextTimer = NULLOPT THEN timeout
  ELSE IF timeout # NULLOPT /\ nextTimer # NULLOPT THEN Min(timeout, nextTimer)
  ELSE IF timeout = NULLOPT /\ nextTimer # NULLOPT THEN nextTimer
  ELSE NULLOPT

\* e.execute(handles), as far as the reactor sees it
Execute(hs) ==
  /\ execBatch' = hs
  /\ timerHanded' = CountHanded(timerHanded, hs)

\* react up to the call of poller.wait: processTimers, waitTimeout, the tick,
\* mEvents.clear()
ReactBegin(t, timeout) ==
  /\ rpc[t] = "locked"
  /\ LET pt == ProcessTimers(<<>>)
     IN  /\ mTimers' = pt.timers
         /\ handles' = pt.hs
         /\ observed' = observed \cup pt.ready
         /\ waitTimeout' = ComputeWaitTimeout(timeout, pt.duration)
  /\ mTimerOps' = <<>>
  /\ mTicker' = mTicker + 1
  /\ mEvents' = <<>>
  /\ waitStart' = clock
  /\ rpc' = [rpc EXCEPT ![t] = "waiting"]
  /\ ret' = NoRet
  /\ UNCHANGED <<ioVars, idGen, mEventLock, execBatch, issued, cancelled,
                 timerHanded, notified, clock>>

\* react leaves: its locals die with the call
ReactLeave(t) ==
  /\ rpc' = [rpc EXCEPT ![t] = "locked"]
  /\ handles' = <<>>
  /\ waitTimeout' = NULLOPT
  /\ waitStart' = 0
  /\ UNCHANGED <<mTicker, mEventLock, idGen, issued, cancelled, clock>>

\* "*waitTimeout != 0s": reading an empty optional is undefined, either answer
WaitTimeoutNonZero == IF waitTimeout = NULLOPT THEN BOOLEAN ELSE {waitTimeout # 0}

\* poller.wait returned 0 events: a notify woke it or the timeout ran out
ReactWaitZero(t, rerun) ==
  /\ rpc[t] = "waiting"
  /\ notified \/ (waitTimeout # NULLOPT /\ clock >= waitStart + waitTimeout)
  /\ rerun \in WaitTimeoutNonZero
  /\ notified' = FALSE
  /\ IF rerun
       THEN LET pt == ProcessTimers(handles)
            IN  /\ mTimers' = pt.timers
                /\ mTimerOps' = <<>>
                /\ observed' = observed \cup pt.ready
                /\ Execute(pt.hs)
       ELSE /\ UNCHANGED <<mTimers, mTimerOps, observed>>
            /\ Execute(handles)
  /\ ret' = [op |-> "react", wait |-> "zero", val |-> "ok"]
  /\ ReactLeave(t)
  /\ UNCHANGED <<ioVars, mEvents>>

\* the events poller.wait reports for the keys in S: those of the registered
\* directions in which the fd is ready
PollEvents(S) ==
  LET order == SortTimers({[when |-> 0, key |-> k] : k \in S})
  IN  [i \in 1..Len(order) |->
         [key      |-> order[i].key,
          readable |-> "read" \in interest[order[i].key] \cap fdReady[order[i].key],
          writable |-> "write" \in interest[order[i].key] \cap fdReady[order[i].key]]]

Deliverable == {k \in Keys : interest[k] \cap fdReady[k] # {}}

\* an event loop that takes the read parker before it looks at writable
RECURSIVE ProcessEventsReadFirst(_, _, _)
ProcessEventsReadFirst(evs, st, hs) ==
  IF evs = <<>> THEN [st |-> st, hs |-> hs]
  ELSE LET ev == Head(evs)
       IN  IF ev.key \notin mSources THEN ProcessEventsReadFirst(Tail(evs), st, hs)
           ELSE IF ev.readable
             THEN LET r == TakeHandle(st, ev.key, "read")
                  IN  ProcessEventsReadFirst(Tail(evs), r.st,
                                             Append(hs, IoEntry(r.h, ev.key, "read")))
           ELSE IF ev.writable
             THEN LET r == TakeHandle(st, ev.key, "write")
                  IN  ProcessEventsReadFirst(Tail(evs), r.st,
                                             Append(hs, IoEntry(r.h, ev.key, "write")))
           ELSE ProcessEventsReadFirst(Tail(evs), st, hs)

\* react's loop over mEvents, under mSourceLock and each Source's stateLock
RECURSIVE ProcessEvents(_, _, _)
ProcessEvents(evs, st, hs) ==
  IF evs = <<>> THEN [st |-> st, hs |-> hs]
  ELSE LET ev == Head(evs)
       IN  IF ev.key \notin mSources THEN ProcessEvents(Tail(evs), st, hs)
           ELSE IF ev.writable
             THEN LET r == TakeHandle(st, ev.key, "write")
                  IN  ProcessEvents(Tail(evs), r.st,
                                    Append(hs, IoEntry(r.h, ev.key, "write")))
           ELSE IF ev.readable
             THEN LET r == TakeHandle(st, ev.key, "read")
                  IN  ProcessEvents(Tail(evs), r.st,
                                    Append(hs, IoEntry(r.h, ev.key, "read")))
           ELSE ProcessEvents(Tail(evs), st, hs)

\* poller.wait returned the events of the keys in S
ReactWaitEvents(t, S) ==
  /\ rpc[t] = "waiting"
  /\ S # {} /\ S \subseteq Deliverable
  /\ mEvents' = PollEvents(S)
  /\ notified' = FALSE
  /\ interest' = [k \in Keys |-> IF oneshot /\ k \in S THEN {} ELSE interest[k]]
  /\ LET r == ProcessEvents(mEvents', slots, handles)
     IN  /\ slots' = r.st
         /\ Execute(r.hs)
  /\ ret' = [op |-> "react", wait |-> "events", val |-> "ok"]
  /\ ReactLeave(t)
  /\ UNCHANGED <<mSources, fdReady, oneshot, mTimers, mTimerOps, observed>>

\* an EINTR path that returns at once, as the other errors might
ReactWaitEINTRDrop(t) ==
  /\ rpc[t] = "waiting"
  /\ Execute(<<>>)
  /\ ret' = [op |-> "react", wait |-> "eintr", val |-> "ok"]
  /\ ReactLeave(t)
  /\ UNCHANGED <<ioVars, mEvents, mTimers, mTimerOps, observed, notified>>

\* poller.wait failed with EINTR: res.emplace()
ReactWaitEINTR(t) ==
  /\ rpc[t] = "waiting"
  /\ Execute(handles)
  /\ ret' = [op |-> "react", wait |-> "eintr", val |-> "ok"]
  /\ ReactLeave(t)
  /\ UNCHANGED <<ioVars, mEvents, mTimers, mTimerOps, observed, notified>>

\* poller.wait failed with another OS error: res.emplace(r.error())
ReactWaitError(t) ==
  /\ rpc[t] = "waiting"
  /\ Execute(handles)
  /\ ret' = [op |-> "react", wait |-> "error", val |-> "error"]
  /\ ReactLeave(t)
  /\ UNCHANGED <<ioVars, mEvents, mTimers, mTimerOps, observed, notified>>

\* ------------------------------------------------------- the reactor alone
ReactorInit ==
  /\ mSources = Keys
  /\ slots = [k \in Keys |-> [read |-> NULL, write |-> NULL]]
  /\ interest = [k \in Keys |-> {}]
  /\ fdReady = [k \in Keys |-> {}]
  /\ oneshot \in BOOLEAN
  /\ notified = FALSE
  /\ mEvents = <<>>
  /\ mTimerOps = <<>>
  /\ mTimers = {}
  /\ idGen = 0
  /\ clock = 0
  /\ mTicker = 0
  /\ mEventLock = NoThread
  /\ rpc = [t \in Threads |-> "idle"]
  /\ handles = <<>>
  /\ waitTimeout = NULLOPT
  /\ waitStart = 0
  /\ execBatch = <<>>
  /\ ret = NoRet
  /\ issued = {}
  /\ observed = {}
  /\ cancelled = {}
  /\ timerHanded = [i \in 0..(MaxTimers - 1) |-> 0]

\* no executor: nobody has called block
ExecIdle ==
  /\ prog = [x \in Tasks |-> <<>>]
  /\ tst = [x \in Tasks |-> "new"]
  /\ tpos = [x \in Tasks |-> 1]
  /\ mSpawnCount = 0
  /\ promiseSet = FALSE
  /\ mTasks = <<>>
  /\ wpc = [w \in Workers |-> "idle"]
  /\ wcur = [w \in Workers |-> NULL]
  /\ bpc = "start"
  /\ crashed = FALSE
  /\ waitFailed = FALSE

\* no InlineExecutor, no blocking pool, no insertIo in progress; the Source
\* under key k was inserted for fd k
ExtIdle ==
  /\ mQueue = <<>>
  /\ mBlockingQueue = <<>>
  /\ run = [th \in RunThreads |-> NULL]
  /\ iexec = <<>>
  /\ fnRuns = [x \in Tasks |-> 0]
  /\ result = [x \in Tasks |-> FALSE]
  /\ resumes = [x \in Tasks |-> 0]
  /\ touched = {}
  /\ srcFd = [k \in SlabKeys |-> IF k \in Keys THEN k ELSE NoFd]
  /\ pollReg = [f \in Fds |-> IF f \in Keys THEN f ELSE NoKey]
  /\ iopc = [t \in Threads |-> "idle"]
  /\ iokey = [t \in Threads |-> NoKey]
  /\ iofd = [t \in Threads |-> NoFd]
  /\ ioSynced = [k \in Keys |-> TRUE]
  /\ lkHeld = [l \in Mutexes |-> NoThread]
  /\ lkScript = [t \in Threads |-> <<>>]
  /\ bpQueue = <<>>
  /\ mIdleCount = 0
  /\ mThreadCount = 0
  /\ mQueueMt = BpNone
  /\ bpPc = [th \in BpThreads |-> IF th = BpCaller THEN "idle" ELSE "none"]
  /\ bpCur = [w \in BpWorkers |-> NoJob]
  /\ bpTimedOut = [w \in BpWorkers |-> FALSE]
  /\ bpJob = [j \in Jobs |-> "new"]
  /\ bpPops = [j \in Jobs |-> 0]
  /\ bpRaced = FALSE
  /\ tpQueue = <<>>
  /\ mTaskTotal = 0
  /\ mTaskMt = NoThread
  /\ mWaiting = FALSE
  /\ mRunning = TRUE
  /\ tpPc = [th \in TpThreads |-> IF th \in Workers THEN "loop" ELSE "idle"]
  /\ tpCur = [th \in TpThreads |-> NoJob]
  /\ tpJob = [j \in PoolTasks |-> "new"]
  /\ tpReturned = {}
  /\ tpDtor = FALSE
  /\ tpEarly = FALSE

Init == ReactorInit /\ ExecIdle /\ ExtIdle

\* react without fd events: begin, then poller.wait returns 0 events
ReactNext(T, TO) ==
  \/ \E t \in T, timeout \in TO :
       mTicker < MaxTicks /\ ReactBegin(t, timeout) /\ UNCHANGED <<execVars, extVars>>
  \/ \E t \in T, rerun \in BOOLEAN : ReactWaitZero(t, rerun) /\ UNCHANGED <<execVars, extVars>>

\* tasks parking on fds, threads competing for the reactor lock
Next ==
  \/ \E k \in Keys, h \in Handles : SetReadable(k, h) /\ UNCHANGED <<execVars, extVars>>
  \/ \E k \in Keys, h \in Handles : SetWritable(k, h) /\ UNCHANGED <<execVars, extVars>>
  \/ \E k \in Keys : UpdateIo(k) /\ UNCHANGED <<execVars, extVars>>
  \/ \E k \in Keys, d \in Dirs : FdReady(k, d) /\ UNCHANGED <<execVars, extVars>>
  \/ \E t \in Threads : Lock(t) /\ UNCHANGED <<execVars, extVars>>
  \/ \E t \in Threads : TryLock(t) /\ UNCHANGED <<execVars, extVars>>
  \/ \E t \in Threads : Unlock(t) /\ UNCHANGED <<execVars, extVars>>
  \/ \E t \in Threads, S \in SUBSET Keys : ReactWaitEvents(t, S) /\ UNCHANGED <<execVars, extVars>>
  \/ ReactNext(Threads, {NULLOPT})

Spec == Init /\ [][Next]_vars

\* tasks sleeping and cancelling, one thread driving the reactor
NextTimers ==
  \/ Tick /\ UNCHANGED <<execVars, extVars>>
  \/ Notify /\ UNCHANGED <<execVars, extVars>>
  \/ \E d \in Delays : InsertTimer(clock + d, Sleeper(idGen)) /\ UNCHANGED <<execVars, extVars>>
  \/ \E e \in issued, w \in {0, 1} : RemoveTimer(e.when + w, e.key) /\ UNCHANGED <<execVars, extVars>>
  \/ Lock("t1") /\ UNCHANGED <<execVars, extVars>>
  \/ ReactNext({"t1"}, Timeouts)

SpecTimers == Init /\ [][NextTimers]_vars

\* a task parking for reading and a task sleeping, poller.wait interrupted
NextEintr ==
  \/ \E k \in Keys : SetReadable(k, "h2") /\ UNCHANGED <<execVars, extVars>>
  \/ \E k \in Keys : UpdateIo(k) /\ UNCHANGED <<execVars, extVars>>
  \/ \E k \in Keys : FdReady(k, "read") /\ UNCHANGED <<execVars, extVars>>
  \/ Tick /\ UNCHANGED <<execVars, extVars>>
  \/ \E d \in Delays : InsertTimer(clock + d, "h1") /\ UNCHANGED <<execVars, extVars>>
  \/ Lock("t1") /\ UNCHANGED <<execVars, extVars>>
  \/ \E S \in SUBSET Keys : ReactWaitEvents("t1", S) /\ UNCHANGED <<execVars, extVars>>
  \/ ReactWaitEINTR("t1") /\ UNCHANGED <<execVars, extVars>>
  \/ ReactNext({"t1"}, {NULLOPT})

SpecEintr == Init /\ [][NextEintr]_vars

\* ------------------------------------------- MutilThreadExecutor, ThreadPool
\* the task bodies of the sleep example in small: top spawns a and sleeps,
\* a sleeps and spawns b, b returns at once
Programs ==
  {[x \in Tasks |->
      CASE x = "top" -> <<[op |-> "spawn", child |-> "a", d |-> 0],
                          [op |-> "sleep", child |-> NULL, d |-> d1]>>
        [] x = "a"   -> <<[op |-> "sleep", child |-> NULL, d |-> d2],
                          [op |-> "spawn", child |-> "b", d |-> 0]>>
        [] OTHER     -> <<>>] : d1 \in Delays, d2 \in Delays}

reactorRest == <<ioVars, timerVars, lockVars, reactLocals, histVars, notified, clock>>

\* ThreadPool::execute for every handle of the span react passes
PoolExecute(q, hs) == q \o [i \in 1..Len(hs) |-> hs[i].h]

\* block up to its drive loop: the promise, the wrapped task, mPool.execute
BlockStart ==
  /\ ~crashed /\ bpc = "start"
  /\ mTasks' = Append(mTasks, "top")
  /\ tst' = [tst EXCEPT !["top"] = "queued"]
  /\ bpc' = "check"
  /\ ret' = NoRet
  /\ UNCHANGED <<reactorRest, prog, tpos, mSpawnCount, promiseSet, wpc, wcur,
                 crashed, waitFailed>>

\* the exit test of the drive loop: future ready and mSpawnCount == 0
BlockCheck ==
  /\ ~crashed /\ bpc = "check"
  /\ bpc' = IF promiseSet /\ mSpawnCount = 0 THEN "returned" ELSE "react"
  /\ ret' = NoRet
  /\ UNCHANGED <<reactorRest, prog, tst, tpos, mSpawnCount, promiseSet, mTasks,
                 wpc, wcur, crashed, waitFailed>>

\* reactor.lock()
BlockLock ==
  /\ ~crashed /\ bpc = "react"
  /\ Lock(Main)
  /\ bpc' = "locked"
  /\ UNCHANGED <<prog, tst, tpos, mSpawnCount, promiseSet, mTasks, wpc, wcur,
                 crashed, waitFailed>>

\* .react(std::nullopt, mPool) up to poller.wait
BlockReactBegin ==
  /\ ~crashed /\ bpc = "locked"
  /\ mTicker < MaxReacts
  /\ ReactBegin(Main, NULLOPT)
  /\ bpc' = "inreact"
  /\ UNCHANGED <<prog, tst, tpos, mSpawnCount, promiseSet, mTasks, wpc, wcur,
                 crashed, waitFailed>>

\* poller.wait returned 0 events; react passes its handles to the pool
BlockReactZero(rerun) ==
  /\ ~crashed /\ bpc = "inreact"
  /\ ReactWaitZero(Main, rerun)
  /\ mTasks' = PoolExecute(mTasks, execBatch')
  /\ bpc' = "unlock"
  /\ UNCHANGED <<prog, tst, tpos, mSpawnCount, promiseSet, wpc, wcur, crashed,
                 waitFailed>>

\* poller.wait failed; react returns the error, which block does not look at
BlockReactError ==
  /\ ~crashed /\ bpc = "inreact"
  /\ ReactWaitError(Main)
  /\ mTasks' = PoolExecute(mTasks, execBatch')
  /\ waitFailed' = TRUE
  /\ bpc' = "unlock"
  /\ UNCHANGED <<prog, tst, tpos, mSpawnCount, promiseSet, wpc, wcur, crashed>>

\* the temporary ReactorLock dies, the loop goes round
BlockUnlock ==
  /\ ~crashed /\ bpc = "unlock"
  /\ Unlock(Main)
  /\ bpc' = "check"
  /\ UNCHANGED <<prog, tst, tpos, mSpawnCount, promiseSet, mTasks, wpc, wcur,
                 crashed, waitFailed>>

\* ThreadPool::worker: wait for a task and pop it, under mTaskMt
WorkerTake(w) ==
  /\ ~crashed /\ wpc[w] = "idle"
  /\ mTasks # <<>>
  /\ wcur' = [wcur EXCEPT ![w] = Head(mTasks)]
  /\ mTasks' = Tail(mTasks)
  /\ wpc' = [wpc EXCEPT ![w] = "resume"]
  /\ ret' = NoRet
  /\ UNCHANGED <<reactorRest, prog, tst, tpos, mSpawnCount, promiseSet, bpc,
                 crashed, waitFailed>>

\* resume() of a null handle, of a coroutine that ran to its end (its frame is
\* destroyed) or of one that is running: undefined, the process dies or not
StaleResume(w) ==
  /\ crashed' \in BOOLEAN
  /\ wpc' = [wpc EXCEPT ![w] = "idle"]
  /\ wcur' = [wcur EXCEPT ![w] = NULL]
  /\ ret' = NoRet
  /\ UNCHANGED <<reactorRest, prog, tst, tpos, mSpawnCount, promiseSet, mTasks,
                 bpc, waitFailed>>

\* spawnDetach(child): fetch_add on mSpawnCount, mPool.execute(handle)
SpawnDetach(w, h, child) ==
  /\ mSpawnCount' = mSpawnCount + 1
  /\ mTasks' = Append(mTasks, child)
  /\ tst' = [tst EXCEPT ![child] = "queued", ![h] = "running"]
  /\ tpos' = [tpos EXCEPT ![h] = @ + 1]
  /\ wpc' = [wpc EXCEPT ![w] = "run"]
  /\ ret' = NoRet
  /\ UNCHANGED <<reactorRest, prog, promiseSet, wcur, bpc, crashed, waitFailed>>

\* co_await sleep(d): insertTimer(now + d, handle), the coroutine suspends
Sleep(w, h, d) ==
  /\ InsertTimer(clock + d, h)
  /\ tst' = [tst EXCEPT ![h] = "suspended"]
  /\ tpos' = [tpos EXCEPT ![h] = @ + 1]
  /\ wpc' = [wpc EXCEPT ![w] = "idle"]
  /\ wcur' = [wcur EXCEPT ![w] = NULL]
  /\ UNCHANGED <<prog, mSpawnCount, promiseSet, mTasks, bpc, crashed, waitFailed>>

\* the task returns; the after-destroy hook up to its notify: set_value for
\* the task of block, fetch_sub on mSpawnCount for a detached one
Complete(w, h) ==
  /\ tst' = [tst EXCEPT ![h] = "done"]
  /\ IF h = "top"
       THEN promiseSet' = TRUE /\ UNCHANGED mSpawnCount
       ELSE mSpawnCount' = mSpawnCount - 1 /\ UNCHANGED promiseSet
  /\ wpc' = [wpc EXCEPT ![w] = "hook"]
  /\ ret' = NoRet
  /\ UNCHANGED <<reactorRest, prog, tpos, mTasks, wcur, bpc, crashed, waitFailed>>

\* ThreadPool::worker: task(), the popped handle runs to its next step
WorkerStep(w) ==
  /\ ~crashed /\ wpc[w] \in {"resume", "run"}
  /\ LET h == wcur[w]
     IN  IF wpc[w] = "resume" /\ (h = NULL \/ tst[h] \in {"running", "done"})
           THEN StaleResume(w)
           ELSE IF tpos[h] > Len(prog[h]) THEN Complete(w, h)
           ELSE IF prog[h][tpos[h]].op = "spawn"
             THEN SpawnDetach(w, h, prog[h][tpos[h]].child)
             ELSE Sleep(w, h, prog[h][tpos[h]].d)

\* the after-destroy hook's reactor.notify(); the worker is free again
WorkerNotify(w) ==
  /\ ~crashed /\ wpc[w] = "hook"
  /\ Notify
  /\ wpc' = [wpc EXCEPT ![w] = "idle"]
  /\ wcur' = [wcur EXCEPT ![w] = NULL]
  /\ UNCHANGED <<prog, tst, tpos, mSpawnCount, promiseSet, mTasks, bpc, crashed,
                 waitFailed>>

InitMT ==
  /\ ReactorInit /\ oneshot
  /\ prog \in Programs
  /\ tst = [x \in Tasks |-> "new"]
  /\ tpos = [x \in Tasks |-> 1]
  /\ mSpawnCount = 0
  /\ promiseSet = FALSE
  /\ mTasks = <<>>
  /\ wpc = [w \in Workers |-> "idle"]
  /\ wcur = [w \in Workers |-> NULL]
  /\ bpc = "start"
  /\ crashed = FALSE
  /\ waitFailed = FALSE
  /\ ExtIdle

NextMT ==
  \/ BlockStart /\ UNCHANGED extVars
  \/ BlockCheck /\ UNCHANGED extVars
  \/ BlockLock /\ UNCHANGED extVars
  \/ BlockReactBegin /\ UNCHANGED extVars
  \/ \E rerun \in BOOLEAN : BlockReactZero(rerun) /\ UNCHANGED extVars
  \/ BlockUnlock /\ UNCHANGED extVars
  \/ \E w \in Workers : WorkerTake(w) /\ UNCHANGED extVars
  \/ \E w \in Workers : WorkerStep(w) /\ UNCHANGED extVars
  \/ \E w \in Workers : WorkerNotify(w) /\ UNCHANGED extVars
  \/ Tick /\ UNCHANGED <<execVars, extVars>>

SpecMT == InitMT /\ [][NextMT]_vars

\* the same, with poller.wait failing
NextMTErr ==
  \/ NextMT
  \/ BlockReactError /\ UNCHANGED extVars

SpecMTErr == InitMT /\ [][NextMTErr]_vars

\* ------------------------------ InlineExecutor, BlockingExecutor, its pool
\* task bodies with blockSpawn: top spawns a and awaits a blockSpawn, in
\* either order; a sleeps or awaits a blockSpawn
InlPrograms ==
  {[x \in Tasks |->
      CASE x = "top" -> tp
        [] x = "a"   -> ap
        [] OTHER     -> <<>>] :
     tp \in {<<[op |-> "spawn", child |-> "a", d |-> 0],
               [op |-> "block", child |-> NULL, d |-> 0]>>,
             <<[op |-> "block", child |-> NULL, d |-> 0],
               [op |-> "spawn", child |-> "a", d |-> 0]>>},
     ap \in {<<[op |-> "sleep", child |-> NULL, d |-> dd]>> : dd \in Delays}
            \cup {<<[op |-> "block", child |-> NULL, d |-> 0]>>}}

\* what no step of the InlineExecutor changes
inlFrame == <<prog, mTasks, wpc, wcur, waitFailed, slabVars, lateVars>>

\* a handle that resume() may be called on: a suspended coroutine
Resumable(h) == h # NULL /\ tst[h] \in {"new", "queued", "suspended"}

\* handle.resume() on thread th: the coroutine runs on th; on a handle that
\* cannot be resumed the behaviour is undefined, the process dies or not
ResumeOn(th, h) ==
  IF Resumable(h)
    THEN /\ run' = [run EXCEPT ![th] = h]
         /\ tst' = [tst EXCEPT ![h] = "running"]
         /\ crashed' = crashed
    ELSE /\ run' = run
         /\ tst' = tst
         /\ crashed' \in BOOLEAN

\* InlineExecutor::spawnDetach, called by the task that runs on th
InlSpawnDetach(th, h, child) ==
  /\ mSpawnCount' = mSpawnCount + 1
  /\ mQueue' = Append(mQueue, child)
  /\ touched' = touched \cup {th}
  /\ tst' = [tst EXCEPT ![child] = "queued"]
  /\ tpos' = [tpos EXCEPT ![h] = @ + 1]
  /\ ret' = NoRet
  /\ UNCHANGED <<reactorRest, inlFrame, promiseSet, bpc, crashed, mBlockingQueue,
                 run, iexec, fnRuns, result, resumes>>

\* co_await sleep(d) by the task that runs on th
InlSleep(th, h, d) ==
  /\ InsertTimer(clock + d, h)
  /\ tst' = [tst EXCEPT ![h] = "suspended"]
  /\ tpos' = [tpos EXCEPT ![h] = @ + 1]
  /\ run' = [run EXCEPT ![th] = NULL]
  /\ UNCHANGED <<inlFrame, mSpawnCount, promiseSet, bpc, crashed, mQueue,
                 mBlockingQueue, iexec, fnRuns, result, resumes, touched>>

\* co_await blockSpawn(fn): Awaiter::await_suspend makes the ContinueTask, sets
\* its continuation to the caller and passes it to BlockingThreadPool::execute
BlockSpawn(th, h) ==
  /\ mBlockingQueue' = Append(mBlockingQueue, h)
  /\ tst' = [tst EXCEPT ![h] = "suspended"]
  /\ tpos' = [tpos EXCEPT ![h] = @ + 1]
  /\ run' = [run EXCEPT ![th] = NULL]
  /\ ret' = NoRet
  /\ UNCHANGED <<reactorRest, inlFrame, mSpawnCount, promiseSet, bpc, crashed,
                 mQueue, iexec, fnRuns, result, resumes, touched>>

\* the task returns on th: afterDestroyFn sets hasValue for the task of block,
\* decrements mSpawnCount for a detached one, and notifies the reactor
InlComplete(th, h) ==
  /\ tst' = [tst EXCEPT ![h] = "done"]
  /\ IF h = "top"
       THEN promiseSet' = TRUE /\ UNCHANGED <<mSpawnCount, touched>>
       ELSE /\ mSpawnCount' = mSpawnCount - 1
            /\ touched' = touched \cup {th}
            /\ UNCHANGED promiseSet
  /\ Notify
  /\ run' = [run EXCEPT ![th] = NULL]
  /\ UNCHANGED <<inlFrame, tpos, bpc, crashed, mQueue, mBlockingQueue, iexec,
                 fnRuns, result, resumes>>

\* the coroutine that runs on th goes on to its next suspension point
InlStep(th) ==
  /\ ~crashed /\ run[th] # NULL
  /\ LET h == run[th]
     IN  IF tpos[h] > Len(prog[h]) THEN InlComplete(th, h)
         ELSE IF prog[h][tpos[h]].op = "spawn"
           THEN InlSpawnDetach(th, h, prog[h][tpos[h]].child)
         ELSE IF prog[h][tpos[h]].op = "sleep"
           THEN InlSleep(th, h, prog[h][tpos[h]].d)
           ELSE BlockSpawn(th, h)

\* BlockingThreadPool::loop pops a ContinueTask and resumes it: fn runs, the
\* coroutine lambda stores the value through its captured this (the closure
\* died at the end of await_suspend: the store reaches the Awaiter or not),
\* and the ContinueTask resumes its continuation, the caller, on this thread;
\* await_resume then reads result
PoolRun ==
  /\ ~crashed /\ run[Pool] = NULL
  /\ mBlockingQueue # <<>>
  /\ LET c == Head(mBlockingQueue)
     IN  /\ mBlockingQueue' = Tail(mBlockingQueue)
         /\ fnRuns' = [fnRuns EXCEPT ![c] = @ + 1]
         /\ \E filled \in BOOLEAN :
              /\ result' = [result EXCEPT ![c] = filled]
              /\ resumes' = [resumes EXCEPT ![c] = @ + 1]
              /\ IF Resumable(c)
                   THEN /\ run' = [run EXCEPT ![Pool] = c]
                        /\ tst' = [tst EXCEPT ![c] = "running"]
                        /\ crashed' \in (IF filled THEN {crashed} ELSE BOOLEAN)
                   ELSE /\ run' = run
                        /\ tst' = tst
                        /\ crashed' \in BOOLEAN
  /\ ret' = NoRet
  /\ UNCHANGED <<reactorRest, inlFrame, tpos, mSpawnCount, promiseSet, bpc, mQueue,
                 iexec, touched>>

\* InlineExecutor::block up to its drive loop: handle.resume()
InlBlockStart ==
  /\ ~crashed /\ bpc = "start"
  /\ ResumeOn(Main, "top")
  /\ bpc' = "drain"
  /\ ret' = NoRet
  /\ UNCHANGED <<reactorRest, inlFrame, tpos, mSpawnCount, promiseSet, mQueue,
                 mBlockingQueue, iexec, fnRuns, result, resumes, touched>>

\* the drain loop: front, pop, resume
InlDrain ==
  /\ ~crashed /\ bpc = "drain" /\ run[Main] = NULL
  /\ mQueue # <<>>
  /\ mQueue' = Tail(mQueue)
  /\ touched' = touched \cup {Main}
  /\ ResumeOn(Main, Head(mQueue))
  /\ ret' = NoRet
  /\ UNCHANGED <<reactorRest, inlFrame, tpos, mSpawnCount, promiseSet, bpc,
                 mBlockingQueue, iexec, fnRuns, result, resumes>>

\* the queue is empty: mSpawnCount == 0 && hasValue && mQueue.empty()
InlCheck ==
  /\ ~crashed /\ bpc = "drain" /\ run[Main] = NULL
  /\ mQueue = <<>>
  /\ touched' = touched \cup {Main}
  /\ bpc' = IF mSpawnCount = 0 /\ promiseSet THEN "returned" ELSE "react"
  /\ ret' = NoRet
  /\ UNCHANGED <<reactorRest, inlFrame, tst, tpos, mSpawnCount, promiseSet, crashed,
                 mQueue, mBlockingQueue, run, iexec, fnRuns, result, resumes>>

\* GetReactor().lock()
InlLock ==
  /\ ~crashed /\ bpc = "react"
  /\ Lock(Main)
  /\ bpc' = "locked"
  /\ UNCHANGED <<inlFrame, tst, tpos, mSpawnCount, promiseSet, crashed, inlVars>>

\* .react(std::nullopt, *this) up to poller.wait
InlReactBegin ==
  /\ ~crashed /\ bpc = "locked"
  /\ mTicker < MaxReacts
  /\ ReactBegin(Main, NULLOPT)
  /\ bpc' = "inreact"
  /\ UNCHANGED <<inlFrame, tst, tpos, mSpawnCount, promiseSet, crashed, inlVars>>

\* poller.wait returned 0 events; react comes to e.execute(handles)
InlReactZero(rerun) ==
  /\ ~crashed /\ bpc = "inreact"
  /\ ReactWaitZero(Main, rerun)
  /\ iexec' = [i \in 1..Len(execBatch') |-> execBatch'[i].h]
  /\ bpc' = "executing"
  /\ UNCHANGED <<inlFrame, tst, tpos, mSpawnCount, promiseSet, crashed, mQueue,
                 mBlockingQueue, run, fnRuns, result, resumes, touched>>

\* InlineExecutor::execute(handle) for the next handle: handle.resume()
InlExecute ==
  /\ ~crashed /\ bpc = "executing" /\ run[Main] = NULL
  /\ iexec # <<>>
  /\ iexec' = Tail(iexec)
  /\ ResumeOn(Main, Head(iexec))
  /\ ret' = NoRet
  /\ UNCHANGED <<reactorRest, inlFrame, tpos, mSpawnCount, promiseSet, bpc, mQueue,
                 mBlockingQueue, fnRuns, result, resumes, touched>>

\* react returns, the temporary ReactorLock dies, the loop goes round
InlReactReturn ==
  /\ ~crashed /\ bpc = "executing" /\ run[Main] = NULL
  /\ iexec = <<>>
  /\ Unlock(Main)
  /\ bpc' = "drain"
  /\ UNCHANGED <<inlFrame, tst, tpos, mSpawnCount, promiseSet, crashed, inlVars>>

InitInline ==
  /\ ReactorInit /\ oneshot
  /\ ExtIdle
  /\ prog \in InlPrograms
  /\ tst = [x \in Tasks |-> "new"]
  /\ tpos = [x \in Tasks |-> 1]
  /\ mSpawnCount = 0
  /\ promiseSet = FALSE
  /\ mTasks = <<>>
  /\ wpc = [w \in Workers |-> "idle"]
  /\ wcur = [w \in Workers |-> NULL]
  /\ bpc = "start"
  /\ crashed = FALSE
  /\ waitFailed = FALSE

NextInline ==
  \/ InlBlockStart
  \/ InlDrain
  \/ InlCheck
  \/ InlLock
  \/ InlReactBegin
  \/ \E rerun \in BOOLEAN : InlReactZero(rerun)
  \/ InlExecute
  \/ InlReactReturn
  \/ \E th \in RunThreads : InlStep(th)
  \/ PoolRun
  \/ Tick /\ UNCHANGED <<execVars, extVars>>

SpecInline == InitInline /\ [][NextInline]_vars

\* ------------------------------------------------- insertIo / removeIo
\* what no insertIo or removeIo step changes
slabFrame == <<slots, fdReady, oneshot, timerVars, lockVars, reactLocals, histVars,
               notified, clock, prog, tst, tpos, mSpawnCount, promiseSet, mTasks,
               wpc, wcur, bpc, waitFailed, inlVars, lateVars>>

\* Slab::vacantEntry().key: removed keys are reused, the lowest first
VacantKey == CHOOSE k \in SlabKeys \ mSources : \A j \in SlabKeys \ mSources : k <= j

\* insertIo(fd) under mSourceLock: vacantEntry, make_shared, insert, unlock
InsertIoBegin(t, fd) ==
  /\ ~crashed /\ iopc[t] = "idle"
  /\ SlabKeys \ mSources # {}
  /\ \A k \in mSources : srcFd[k] # fd
  /\ mSources' = mSources \cup {VacantKey}
  /\ srcFd' = [srcFd EXCEPT ![VacantKey] = fd]
  /\ iokey' = [iokey EXCEPT ![t] = VacantKey]
  /\ iofd' = [iofd EXCEPT ![t] = fd]
  /\ iopc' = [iopc EXCEPT ![t] = "adding"]
  /\ ret' = NoRet
  /\ UNCHANGED <<slabFrame, interest, pollReg, crashed>>

\* mPoller.add(fd, Event::None(source->key)): source was moved from in the
\* insert, so source->key reads through a null shared_ptr: the process dies,
\* or add is called with whatever key the read gave, and succeeds or fails
InsertIoAdd(t) ==
  /\ ~crashed /\ iopc[t] = "adding"
  /\ ret' = NoRet
  /\ \/ /\ crashed' = TRUE
        /\ UNCHANGED <<pollReg, iopc, iokey, iofd>>
     \/ \E regKey \in SlabKeys, ok \in BOOLEAN :
          /\ crashed' = crashed
          /\ IF ok
               THEN /\ pollReg' = [pollReg EXCEPT ![iofd[t]] = regKey]
                    /\ iopc' = [iopc EXCEPT ![t] = "idle"]
                    /\ iokey' = [iokey EXCEPT ![t] = NoKey]
                    /\ iofd' = [iofd EXCEPT ![t] = NoFd]
               ELSE /\ iopc' = [iopc EXCEPT ![t] = "rollback"]
                    /\ UNCHANGED <<pollReg, iokey, iofd>>
  /\ UNCHANGED <<slabFrame, mSources, interest, srcFd>>

\* a failure path that returns the error and leaves the Source in the slab
InsertIoRollbackNone(t) ==
  /\ ~crashed /\ iopc[t] = "rollback"
  /\ ret' = [op |-> "insertIo", key |-> iokey[t], fd |-> iofd[t], val |-> "error"]
  /\ iopc' = [iopc EXCEPT ![t] = "idle"]
  /\ iokey' = [iokey EXCEPT ![t] = NoKey]
  /\ iofd' = [iofd EXCEPT ![t] = NoFd]
  /\ UNCHANGED <<slabFrame, mSources, srcFd, interest, pollReg, crashed>>

\* add failed: under mSourceLock tryRemove(key), return the error
InsertIoRollback(t) ==
  /\ ~crashed /\ iopc[t] = "rollback"
  /\ mSources' = mSources \ {iokey[t]}
  /\ srcFd' = [srcFd EXCEPT ![iokey[t]] = NoFd]
  /\ ret' = [op |-> "insertIo", key |-> iokey[t], fd |-> iofd[t], val |-> "error"]
  /\ iopc' = [iopc EXCEPT ![t] = "idle"]
  /\ iokey' = [iokey EXCEPT ![t] = NoKey]
  /\ iofd' = [iofd EXCEPT ![t] = NoFd]
  /\ UNCHANGED <<slabFrame, interest, pollReg, crashed>>

\* removeIo(source) under mSourceLock: tryRemove(source.key), poller.del(fd)
RemoveIo(k) ==
  /\ ~crashed
  /\ k \in mSources
  /\ \A t \in Threads : iokey[t] # k
  /\ mSources' = mSources \ {k}
  /\ srcFd' = [srcFd EXCEPT ![k] = NoFd]
  /\ pollReg' = [pollReg EXCEPT ![srcFd[k]] = NoKey]
  /\ interest' = [j \in Keys |-> IF j = k THEN {} ELSE interest[j]]
  /\ ret' = [op |-> "removeIo", key |-> k, fd |-> srcFd[k], val |-> "ok"]
  /\ UNCHANGED <<slabFrame, iopc, iokey, iofd, crashed>>

\* threads inserting and removing fds concurrently
NextSlab ==
  \/ \E t \in Threads, fd \in Fds : InsertIoBegin(t, fd)
  \/ \E t \in Threads : InsertIoAdd(t)
  \/ \E t \in Threads : InsertIoRollback(t)
  \/ \E k \in SlabKeys : RemoveIo(k)

SpecSlab == Init /\ [][NextSlab]_vars

\* ------------------------------- react's event loop, step by step
\* poller.wait returned the events of the keys in S into mEvents
ReactPoll(t, S) ==
  /\ rpc[t] = "waiting"
  /\ S # {} /\ S \subseteq Deliverable
  /\ mEvents' = PollEvents(S)
  /\ notified' = FALSE
  /\ interest' = [k \in Keys |-> IF oneshot /\ k \in S THEN {} ELSE interest[k]]
  /\ rpc' = [rpc EXCEPT ![t] = "polled"]
  /\ ret' = NoRet
  /\ UNCHANGED <<mSources, slots, fdReady, oneshot, timerVars, mEventLock, mTicker,
                 handles, waitTimeout, waitStart, execBatch, histVars, clock>>

\* react takes mSourceLock, goes through mEvents, calls e.execute, returns
ReactProcess(t) ==
  /\ rpc[t] = "polled"
  /\ LET r == ProcessEvents(mEvents, slots, handles)
     IN  /\ slots' = r.st
         /\ Execute(r.hs)
  /\ ret' = [op |-> "react", wait |-> "events", val |-> "ok"]
  /\ ReactLeave(t)
  /\ UNCHANGED <<mSources, interest, fdReady, oneshot, mEvents, mTimers, mTimerOps,
                 observed, notified>>

\* tasks parking on an fd that another thread may remove while react runs
NextEvents ==
  \/ \E k \in Keys, h \in Handles : SetReadable(k, h) /\ UNCHANGED <<execVars, extVars>>
  \/ \E k \in Keys, h \in Handles : SetWritable(k, h) /\ UNCHANGED <<execVars, extVars>>
  \/ \E k \in Keys : UpdateIo(k) /\ UNCHANGED <<execVars, extVars>>
  \/ \E k \in Keys, d \in Dirs : FdReady(k, d) /\ UNCHANGED <<execVars, extVars>>
  \/ \E k \in Keys : RemoveIo(k)
  \/ Lock("t1") /\ UNCHANGED <<execVars, extVars>>
  \/ \E S \in SUBSET Keys : ReactPoll("t1", S) /\ UNCHANGED <<execVars, extVars>>
  \/ ReactProcess("t1") /\ UNCHANGED <<execVars, extVars>>
  \/ ReactNext({"t1"}, {NULLOPT})

SpecEvents == Init /\ [][NextEvents]_vars

\* ------------------------------- the parking protocol and the poller's mask
\* step 1 of the parking protocol: setReadable / setWritable; an install that
\* succeeded leaves the Source waiting for its updateIo
InstallParker(k, d, h) ==
  /\ SetSlot(k, d, h)
  /\ ioSynced' = [ioSynced EXCEPT ![k] = IF ret'.val THEN FALSE ELSE @]
  /\ UNCHANGED <<execVars, inlVars, slabVars, lockOrdVars, bpoolVars, tpoolVars>>

\* step 2 of the parking protocol: the caller's updateIo
UpdateIoDone(k) ==
  /\ UpdateIo(k)
  /\ ioSynced' = [ioSynced EXCEPT ![k] = TRUE]
  /\ UNCHANGED <<execVars, inlVars, slabVars, lockOrdVars, bpoolVars, tpoolVars>>

\* tasks parking on an fd by the protocol while a thread reacts
NextMask ==
  \/ \E k \in Keys, d \in Dirs, h \in Handles : InstallParker(k, d, h)
  \/ \E k \in Keys : UpdateIoDone(k)
  \/ \E k \in Keys, d \in Dirs : FdReady(k, d) /\ UNCHANGED <<execVars, extVars>>
  \/ Lock("t1") /\ UNCHANGED <<execVars, extVars>>
  \/ \E S \in SUBSET Keys : ReactPoll("t1", S) /\ UNCHANGED <<execVars, extVars>>
  \/ ReactProcess("t1") /\ UNCHANGED <<execVars, extVars>>
  \/ ReactNext({"t1"}, {NULLOPT})

SpecMask == Init /\ [][NextMask]_vars

\* ------------------------------------------- the mutexes, operation by operation
\* the steps of an operation: lock a mutex, unlock it, or a call made in between
Acq(l) == [a |-> "lock", l |-> l, c |-> ""]
Rel(l) == [a |-> "unlock", l |-> l, c |-> ""]
Call(c) == [a |-> "call", l |-> EventLock, c |-> c]

\* Reactor::processTimers: mTimerLock around processTimeOps and the scan
ProcessTimersLocks == <<Acq(TimerLock), Call("processTimeOps"), Rel(TimerLock)>>

\* react's loop over the events of the keys 1..n, a stateLock per iteration
RECURSIVE EventLoopLocks(_)
EventLoopLocks(n) ==
  IF n = 0 THEN <<>>
  ELSE EventLoopLocks(n - 1) \o <<Acq(StateLock(n)), Call("takeHandle"), Rel(StateLock(n))>>

\* Reactor::lock, ReactorLock::react, ~ReactorLock: what poller.wait returned
\* (zero events with or without the second processTimers, n events of which
\* the keys may be stale, an error) decides the steps after it
ReactLocks(kind, n) ==
  <<Acq(EventLock)>> \o ProcessTimersLocks \o <<Call("wait")>>
    \o (CASE kind = "rerun"  -> ProcessTimersLocks
           [] kind = "events" -> <<Acq(SourceLock)>> \o EventLoopLocks(n) \o <<Rel(SourceLock)>>
           [] OTHER           -> <<>>)
    \o <<Call("execute"), Rel(EventLock)>>

ReactKinds == {"zero", "rerun", "events", "error"}

\* Reactor::insertIo: mSourceLock around the slab insert, poller.add outside
\* it, mSourceLock again for the rollback
InsertIoLocks(ok) ==
  <<Acq(SourceLock), Call("insert"), Rel(SourceLock), Call("add")>>
    \o (IF ok THEN <<>> ELSE <<Acq(SourceLock), Call("tryRemove"), Rel(SourceLock)>>)

\* Reactor::removeIo: poller.del under mSourceLock
RemoveIoLocks == <<Acq(SourceLock), Call("tryRemove"), Call("del"), Rel(SourceLock)>>

\* an updateIo that asks the Source for its mask before it takes mSourceLock
UpdateIoLocksStateFirst(k) ==
  <<Acq(StateLock(k)), Acq(SourceLock), Call("mod"), Rel(SourceLock), Rel(StateLock(k))>>

\* Reactor::updateIo: getEvent (stateLock) and poller.mod under mSourceLock
UpdateIoLocks(k) ==
  <<Acq(SourceLock), Acq(StateLock(k)), Rel(StateLock(k)), Call("mod"), Rel(SourceLock)>>

\* Source::setReadable / setWritable: stateLock only
SetSlotLocks(k) == <<Acq(StateLock(k)), Call("install"), Rel(StateLock(k))>>

\* Reactor::insertTimer / removeTimer: the op goes into mTimerOps, no mutex
TimerOpLocks == <<Call("emplace")>>

LockScripts ==
  {ReactLocks(kind, n) : kind \in ReactKinds, n \in 0..NumSources}
    \cup {InsertIoLocks(ok) : ok \in BOOLEAN}
    \cup {RemoveIoLocks, TimerOpLocks}
    \cup {UpdateIoLocks(k) : k \in Keys}
    \cup {SetSlotLocks(k) : k \in Keys}

\* what no step of this section changes
lockOrdFrame == <<reactorVars, execVars, inlVars, slabVars, maskVars, bpoolVars,
                  tpoolVars>>

\* the mutexes thread t holds
HeldBy(t) == {l \in Mutexes : lkHeld[l] = t}

\* thread t is inside an operation and its next step is to lock a mutex that
\* another thread (or t itself) holds
LockBlocked(t) ==
  /\ lkScript[t] # <<>>
  /\ Head(lkScript[t]).a = "lock"
  /\ lkHeld[Head(lkScript[t]).l] # NoThread

\* thread t calls an operation of the Reactor
LockOpBegin(t, s) ==
  /\ lkScript[t] = <<>>
  /\ lkScript' = [lkScript EXCEPT ![t] = s]
  /\ UNCHANGED <<lkHeld, lockOrdFrame>>

\* std::unique_lock's constructor: blocks while the mutex is held
LockAcquire(t) ==
  /\ lkScript[t] # <<>>
  /\ Head(lkScript[t]).a = "lock"
  /\ lkHeld[Head(lkScript[t]).l] = NoThread
  /\ lkHeld' = [lkHeld EXCEPT ![Head(lkScript[t]).l] = t]
  /\ lkScript' = [lkScript EXCEPT ![t] = Tail(@)]
  /\ UNCHANGED lockOrdFrame

\* std::unique_lock's destructor or unlock()
LockRelease(t) ==
  /\ lkScript[t] # <<>>
  /\ Head(lkScript[t]).a = "unlock"
  /\ lkHeld' = [lkHeld EXCEPT ![Head(lkScript[t]).l] = NoThread]
  /\ lkScript' = [lkScript EXCEPT ![t] = Tail(@)]
  /\ UNCHANGED lockOrdFrame

\* a call made between two lock steps returns
LockCall(t) ==
  /\ lkScript[t] # <<>>
  /\ Head(lkScript[t]).a = "call"
  /\ lkScript' = [lkScript EXCEPT ![t] = Tail(@)]
  /\ UNCHANGED <<lkHeld, lockOrdFrame>>

\* threads calling the operations of one Reactor concurrently
NextLocks ==
  \/ \E t \in Threads, s \in LockScripts : LockOpBegin(t, s)
  \/ \E t \in Threads : LockAcquire(t)
  \/ \E t \in Threads : LockRelease(t)
  \/ \E t \in Threads : LockCall(t)

SpecLocks == Init /\ [][NextLocks]_vars

\* ------------------------------------------------- the elastic blocking pool
\* what no step of the blocking pool changes
bpFrame == <<reactorVars, execVars, inlVars, slabVars, maskVars, lockOrdVars,
             tpoolVars>>

\* the pool threads blocked in mQueueCv.wait_for
CvWaiting == {w \in BpWorkers : bpPc[w] = "waiting"}

\* the handles not yet passed to execute
NewJobs == {j \in Jobs : bpJob[j] = "new"}

\* BlockingThreadPool::execute, line 25: the caller takes mQueueMt
ExecuteLock ==
  /\ bpPc[BpCaller] = "idle"
  /\ NewJobs # {}
  /\ mQueueMt = BpNone
  /\ mQueueMt' = BpCaller
  /\ bpPc' = [bpPc EXCEPT ![BpCaller] = "push"]
  /\ UNCHANGED <<bpQueue, mIdleCount, mThreadCount, bpCur, bpTimedOut, bpJob, bpPops,
                 bpRaced, bpFrame>>

\* execute, lines 26-27: push_back and notify_one, which wakes one of the
\* threads in wait_for if there is one
ExecutePush ==
  /\ bpPc[BpCaller] = "push"
  /\ LET j == CHOOSE x \in NewJobs : \A y \in NewJobs : x <= y
     IN  /\ bpQueue' = Append(bpQueue, j)
         /\ bpJob' = [bpJob EXCEPT ![j] = "queued"]
  /\ \E woken \in (IF CvWaiting = {} THEN {NoJob} ELSE CvWaiting) :
       bpPc' = [th \in BpThreads |->
                  IF th = BpCaller THEN "grow"
                  ELSE IF th = woken THEN "woken" ELSE bpPc[th]]
  /\ bpRaced' = (bpRaced \/ \E w \in BpWorkers : bpPc[w] = "woken" /\ bpTimedOut[w])
  /\ UNCHANGED <<mIdleCount, mThreadCount, mQueueMt, bpCur, bpTimedOut, bpPops, bpFrame>>

\* a growPool that counts the new thread but not as idle
GrowPoolSpawnNotIdle(th) ==
  /\ bpPc[th] = "grow"
  /\ Len(bpQueue) > mIdleCount * GrowFactor /\ mThreadCount < BpLimit
  /\ \E w \in BpWorkers :
       /\ bpPc[w] = "none"
       /\ \A v \in BpWorkers : bpPc[v] = "none" => w <= v
       /\ bpPc' = [x \in BpThreads |->
                     IF x = w THEN "start"
                     ELSE IF x \in CvWaiting THEN "woken" ELSE bpPc[x]]
  /\ mThreadCount' = mThreadCount + 1
  /\ UNCHANGED <<mIdleCount, bpQueue, mQueueMt, bpCur, bpTimedOut, bpJob, bpPops, bpRaced,
                 bpFrame>>

\* growPool, one turn of its loop (59-64): count the thread, count it idle,
\* notify_all, start it
GrowPoolSpawn(th) ==
  /\ bpPc[th] = "grow"
  /\ Len(bpQueue) > mIdleCount * GrowFactor /\ mThreadCount < BpLimit
  /\ \E w \in BpWorkers :
       /\ bpPc[w] = "none"
       /\ \A v \in BpWorkers : bpPc[v] = "none" => w <= v
       /\ bpPc' = [x \in BpThreads |->
                     IF x = w THEN "start"
                     ELSE IF x \in CvWaiting THEN "woken" ELSE bpPc[x]]
  /\ mThreadCount' = mThreadCount + 1
  /\ mIdleCount' = mIdleCount + 1
  /\ UNCHANGED <<bpQueue, mQueueMt, bpCur, bpTimedOut, bpJob, bpPops, bpRaced, bpFrame>>

\* growPool returns: to execute, which unlocks and returns (29), or to the
\* loop, which goes on to pop (40)
GrowPoolReturn(th) ==
  /\ bpPc[th] = "grow"
  /\ ~(Len(bpQueue) > mIdleCount * GrowFactor /\ mThreadCount < BpLimit)
  /\ IF th = BpCaller
       THEN /\ bpPc' = [bpPc EXCEPT ![th] = "idle"]
            /\ mQueueMt' = BpNone
       ELSE /\ bpPc' = [bpPc EXCEPT ![th] = "pop"]
            /\ mQueueMt' = mQueueMt
  /\ UNCHANGED <<bpQueue, mIdleCount, mThreadCount, bpCur, bpTimedOut, bpJob, bpPops,
                 bpRaced, bpFrame>>

\* loop, lines 35-37: a new thread takes mQueueMt and stops counting as idle
WorkerStart(w) ==
  /\ bpPc[w] = "start"
  /\ mQueueMt = BpNone
  /\ mQueueMt' = w
  /\ mIdleCount' = mIdleCount - 1
  /\ bpPc' = [bpPc EXCEPT ![w] = "check"]
  /\ UNCHANGED <<bpQueue, mThreadCount, bpCur, bpTimedOut, bpJob, bpPops, bpRaced, bpFrame>>

\* loop, line 38, and on an empty queue lines 46-47: count as idle and go
\* into wait_for, which releases mQueueMt
WorkerCheck(w) ==
  /\ bpPc[w] = "check"
  /\ IF bpQueue # <<>>
       THEN /\ bpPc' = [bpPc EXCEPT ![w] = "grow"]
            /\ UNCHANGED <<mIdleCount, mQueueMt>>
       ELSE /\ bpPc' = [bpPc EXCEPT ![w] = "waiting"]
            /\ mIdleCount' = mIdleCount + 1
            /\ mQueueMt' = BpNone
  /\ UNCHANGED <<bpQueue, mThreadCount, bpCur, bpTimedOut, bpJob, bpPops, bpRaced, bpFrame>>

\* loop, lines 40-42: pop the front and unlock
WorkerPop(w) ==
  /\ bpPc[w] = "pop"
  /\ bpCur' = [bpCur EXCEPT ![w] = Head(bpQueue)]
  /\ bpQueue' = Tail(bpQueue)
  /\ bpJob' = [bpJob EXCEPT ![Head(bpQueue)] = "running"]
  /\ bpPops' = [bpPops EXCEPT ![Head(bpQueue)] = Min(@ + 1, 2)]
  /\ mQueueMt' = BpNone
  /\ bpPc' = [bpPc EXCEPT ![w] = "run"]
  /\ UNCHANGED <<mIdleCount, mThreadCount, bpTimedOut, bpRaced, bpFrame>>

\* loop, line 43: task.resume() returns
WorkerResume(w) ==
  /\ bpPc[w] = "run"
  /\ bpJob' = [bpJob EXCEPT ![bpCur[w]] = "done"]
  /\ bpCur' = [bpCur EXCEPT ![w] = NoJob]
  /\ bpPc' = [bpPc EXCEPT ![w] = "relock"]
  /\ UNCHANGED <<bpQueue, mIdleCount, mThreadCount, mQueueMt, bpTimedOut, bpPops, bpRaced,
                 bpFrame>>

\* loop, line 44: lk.lock()
WorkerRelock(w) ==
  /\ bpPc[w] = "relock"
  /\ mQueueMt = BpNone
  /\ mQueueMt' = w
  /\ bpPc' = [bpPc EXCEPT ![w] = "check"]
  /\ UNCHANGED <<bpQueue, mIdleCount, mThreadCount, bpCur, bpTimedOut, bpJob, bpPops,
                 bpRaced, bpFrame>>

\* the 500ms of a wait_for are over
CvTimeout(w) ==
  /\ bpPc[w] = "waiting"
  /\ bpPc' = [bpPc EXCEPT ![w] = "woken"]
  /\ bpTimedOut' = [bpTimedOut EXCEPT ![w] = TRUE]
  /\ UNCHANGED <<bpQueue, mIdleCount, mThreadCount, mQueueMt, bpCur, bpJob, bpPops, bpRaced,
                 bpFrame>>

\* a wait_for ends without notification or timeout (spurious wakeup)
CvSpurious(w) ==
  /\ bpPc[w] = "waiting"
  /\ bpPc' = [bpPc EXCEPT ![w] = "woken"]
  /\ UNCHANGED <<bpQueue, mIdleCount, mThreadCount, mQueueMt, bpCur, bpTimedOut, bpJob,
                 bpPops, bpRaced, bpFrame>>

\* a worker that retires on every timeout
WorkerWakeRetireAlways(w) ==
  /\ bpPc[w] = "woken"
  /\ mQueueMt = BpNone
  /\ bpTimedOut' = [bpTimedOut EXCEPT ![w] = FALSE]
  /\ IF bpTimedOut[w]
       THEN /\ mIdleCount' = mIdleCount - 1
            /\ mThreadCount' = mThreadCount - 1
            /\ bpPc' = [bpPc EXCEPT ![w] = "none"]
            /\ mQueueMt' = BpNone
       ELSE /\ mIdleCount' = mIdleCount - 1
            /\ mThreadCount' = mThreadCount
            /\ bpPc' = [bpPc EXCEPT ![w] = "check"]
            /\ mQueueMt' = w
  /\ UNCHANGED <<bpQueue, bpCur, bpJob, bpPops, bpRaced, bpFrame>>

\* wait_for returns with mQueueMt held, lines 47-52 and 37: retire after a
\* timeout with the queue empty, else stop counting as idle and loop
WorkerWake(w) ==
  /\ bpPc[w] = "woken"
  /\ mQueueMt = BpNone
  /\ bpTimedOut' = [bpTimedOut EXCEPT ![w] = FALSE]
  /\ IF bpTimedOut[w] /\ bpQueue = <<>>
       THEN /\ mIdleCount' = mIdleCount - 1
            /\ mThreadCount' = mThreadCount - 1
            /\ bpPc' = [bpPc EXCEPT ![w] = "none"]
            /\ mQueueMt' = BpNone
       ELSE /\ mIdleCount' = mIdleCount - 1
            /\ mThreadCount' = mThreadCount
            /\ bpPc' = [bpPc EXCEPT ![w] = "check"]
            /\ mQueueMt' = w
  /\ UNCHANGED <<bpQueue, bpCur, bpJob, bpPops, bpRaced, bpFrame>>

\* one thread passing handles to the pool, the pool threads
NextBPool ==
  \/ ExecuteLock
  \/ ExecutePush
  \/ \E th \in BpThreads : GrowPoolSpawn(th)
  \/ \E th \in BpThreads : GrowPoolReturn(th)
  \/ \E w \in BpWorkers : WorkerStart(w)
  \/ \E w \in BpWorkers : WorkerCheck(w)
  \/ \E w \in BpWorkers : WorkerPop(w)
  \/ \E w \in BpWorkers : WorkerResume(w)
  \/ \E w \in BpWorkers : WorkerRelock(w)
  \/ \E w \in BpWorkers : CvTimeout(w)
  \/ \E w \in BpWorkers : CvSpurious(w)
  \/ \E w \in BpWorkers : WorkerWake(w)

SpecBPool == Init /\ [][NextBPool]_vars

\* the pool under a scheduler that runs every thread: a thread that holds
\* mQueueMt or runs a handle takes its next step, the 500ms of a wait_for come
\* to an end, and a thread that keeps finding mQueueMt free gets it
BPoolFairness ==
  /\ WF_vars(ExecutePush)
  /\ \A th \in BpThreads : WF_vars(GrowPoolSpawn(th)) /\ WF_vars(GrowPoolReturn(th))
  /\ \A w \in BpWorkers :
       /\ WF_vars(WorkerCheck(w)) /\ WF_vars(WorkerPop(w)) /\ WF_vars(WorkerResume(w))
       /\ WF_vars(CvTimeout(w))
       /\ SF_vars(WorkerStart(w)) /\ SF_vars(WorkerRelock(w)) /\ SF_vars(WorkerWake(w))

SpecBPoolLive == SpecBPool /\ BPoolFairness

\* ------------------------------------------------------- the worker pool
\* what no step of the worker pool changes
tpFrame == <<reactorVars, execVars, inlVars, slabVars, maskVars, lockOrdVars, bpoolVars>>

\* the workers blocked in mTaskAvailableCV.wait
TpWaiting == {w \in Workers : tpPc[w] = "waiting"}

\* the handles not yet passed to execute
NewPoolTasks == {j \in PoolTasks : tpJob[j] = "new"}

\* the handles that are in the queue or were popped and not yet counted down
TpOutstanding ==
  Len(tpQueue) + Cardinality({w \in Workers : tpPc[w] \in {"run", "relock", "dec"}})

\* ThreadPool::execute, lines 144-147: push under mTaskMt
TpExecutePush ==
  /\ tpPc[Producer] = "idle" /\ ~tpDtor
  /\ NewPoolTasks # {}
  /\ mTaskMt = NoThread
  /\ LET j == CHOOSE x \in NewPoolTasks : \A y \in NewPoolTasks : x <= y
     IN  /\ tpQueue' = Append(tpQueue, j)
         /\ tpJob' = [tpJob EXCEPT ![j] = "queued"]
         /\ tpCur' = [tpCur EXCEPT ![Producer] = j]
  /\ tpPc' = [tpPc EXCEPT ![Producer] = "inc"]
  /\ UNCHANGED <<mTaskTotal, mTaskMt, mWaiting, mRunning, tpReturned, tpDtor, tpEarly,
                 tpFrame>>

\* execute, line 148: ++mTaskTotal, after the mutex was released
TpExecuteCount ==
  /\ tpPc[Producer] = "inc"
  /\ mTaskTotal' = mTaskTotal + 1
  /\ tpPc' = [tpPc EXCEPT ![Producer] = "notify"]
  /\ UNCHANGED <<tpQueue, mTaskMt, mWaiting, mRunning, tpCur, tpJob, tpReturned, tpDtor, tpEarly,
                 tpFrame>>

\* execute, line 149: notify_one wakes one of the waiting workers, if any
TpExecuteNotify ==
  /\ tpPc[Producer] = "notify"
  /\ \E woken \in (IF TpWaiting = {} THEN {NoThread} ELSE TpWaiting) :
       tpPc' = [th \in TpThreads |->
                  IF th = Producer THEN "idle"
                  ELSE IF th = woken THEN "wake" ELSE tpPc[th]]
  /\ tpReturned' = tpReturned \cup {tpCur[Producer]}
  /\ tpCur' = [tpCur EXCEPT ![Producer] = NoJob]
  /\ UNCHANGED <<tpQueue, mTaskTotal, mTaskMt, mWaiting, mRunning, tpJob, tpDtor, tpEarly,
                 tpFrame>>

\* worker, line 179: while (mRunning)
TpWorkerLoop(w) ==
  /\ tpPc[w] = "loop"
  /\ tpPc' = [tpPc EXCEPT ![w] = IF mRunning THEN "lock" ELSE "exited"]
  /\ UNCHANGED <<tpQueue, mTaskTotal, mTaskMt, mWaiting, mRunning, tpCur, tpJob, tpReturned, tpDtor, tpEarly,
                 tpFrame>>

\* worker, line 181, and the relock at the end of a wait: take mTaskMt
TpWorkerLock(w) ==
  /\ tpPc[w] \in {"lock", "wake"}
  /\ mTaskMt = NoThread
  /\ mTaskMt' = w
  /\ tpPc' = [tpPc EXCEPT ![w] = "pred"]
  /\ UNCHANGED <<tpQueue, mTaskTotal, mWaiting, mRunning, tpCur, tpJob, tpReturned, tpDtor, tpEarly,
                 tpFrame>>

\* worker, line 182: the predicate of the wait, read with mTaskMt held
TpWorkerPred(w) ==
  /\ tpPc[w] = "pred"
  /\ tpPc' = [tpPc EXCEPT ![w] = IF tpQueue # <<>> \/ ~mRunning THEN "after" ELSE "block"]
  /\ UNCHANGED <<tpQueue, mTaskTotal, mTaskMt, mWaiting, mRunning, tpCur, tpJob, tpReturned, tpDtor, tpEarly,
                 tpFrame>>

\* worker, line 182: the predicate was false, wait() unlocks mTaskMt and blocks
TpWorkerBlock(w) ==
  /\ tpPc[w] = "block"
  /\ mTaskMt' = NoThread
  /\ tpPc' = [tpPc EXCEPT ![w] = "waiting"]
  /\ UNCHANGED <<tpQueue, mTaskTotal, mWaiting, mRunning, tpCur, tpJob, tpReturned, tpDtor, tpEarly,
                 tpFrame>>

\* a wait ends without notification (spurious wakeup)
TpSpurious(th) ==
  /\ \/ th \in Workers /\ tpPc[th] = "waiting" /\ tpPc' = [tpPc EXCEPT ![th] = "wake"]
     \/ th = Owner /\ tpPc[th] = "wwaiting" /\ tpPc' = [tpPc EXCEPT ![th] = "wwake"]
  /\ UNCHANGED <<tpQueue, mTaskTotal, mTaskMt, mWaiting, mRunning, tpCur, tpJob, tpReturned, tpDtor, tpEarly,
                 tpFrame>>

\* worker, lines 183-186: pop and unlock if mRunning, else leave the block
TpWorkerAfter(w) ==
  /\ tpPc[w] = "after"
  /\ mTaskMt' = NoThread
  /\ IF mRunning /\ tpQueue # <<>>
       THEN /\ tpCur' = [tpCur EXCEPT ![w] = Head(tpQueue)]
            /\ tpQueue' = Tail(tpQueue)
            /\ tpJob' = [tpJob EXCEPT ![Head(tpQueue)] = "running"]
            /\ tpPc' = [tpPc EXCEPT ![w] = "run"]
       ELSE /\ tpPc' = [tpPc EXCEPT ![w] = "loop"]
            /\ UNCHANGED <<tpCur, tpQueue, tpJob>>
  /\ UNCHANGED <<mTaskTotal, mWaiting, mRunning, tpReturned, tpDtor, tpEarly,
                 tpFrame>>

\* worker, line 187: task() returns
TpWorkerRun(w) ==
  /\ tpPc[w] = "run"
  /\ tpJob' = [tpJob EXCEPT ![tpCur[w]] = "done"]
  /\ tpCur' = [tpCur EXCEPT ![w] = NoJob]
  /\ tpPc' = [tpPc EXCEPT ![w] = "relock"]
  /\ UNCHANGED <<tpQueue, mTaskTotal, mTaskMt, mWaiting, mRunning, tpReturned, tpDtor, tpEarly,
                 tpFrame>>

\* worker, line 188: tasks_lock.lock()
TpWorkerRelock(w) ==
  /\ tpPc[w] = "relock"
  /\ mTaskMt = NoThread
  /\ mTaskMt' = w
  /\ tpPc' = [tpPc EXCEPT ![w] = "dec"]
  /\ UNCHANGED <<tpQueue, mTaskTotal, mWaiting, mRunning, tpCur, tpJob, tpReturned, tpDtor, tpEarly,
                 tpFrame>>

\* worker, lines 189-193: --mTaskTotal, notify_one on mTaskDoneCV if
\* mWaiting, unlock at the end of the block
TpWorkerDone(w) ==
  /\ tpPc[w] = "dec"
  /\ mTaskTotal' = mTaskTotal - 1
  /\ mTaskMt' = NoThread
  /\ tpPc' = [th \in TpThreads |->
                IF th = w THEN "loop"
                ELSE IF th = Owner /\ mWaiting /\ tpPc[th] = "wwaiting" THEN "wwake"
                ELSE tpPc[th]]
  /\ UNCHANGED <<tpQueue, mWaiting, mRunning, tpCur, tpJob, tpReturned, tpDtor, tpEarly,
                 tpFrame>>

\* waitEmpty, line 153: mWaiting = true; called on its own or by ~ThreadPool,
\* which is entered when no execute is in progress
TpWaitEmptyBegin(dtor) ==
  /\ tpPc[Owner] = "idle"
  /\ dtor => tpPc[Producer] = "idle"
  /\ tpDtor' = dtor
  /\ mWaiting' = TRUE
  /\ tpPc' = [tpPc EXCEPT ![Owner] = "wlock"]
  /\ UNCHANGED <<tpQueue, mTaskTotal, mTaskMt, mRunning, tpCur, tpJob, tpReturned, tpEarly,
                 tpFrame>>

\* waitEmpty, line 154, and the relock at the end of a wait
TpWaitEmptyLock ==
  /\ tpPc[Owner] \in {"wlock", "wwake"}
  /\ mTaskMt = NoThread
  /\ mTaskMt' = Owner
  /\ tpPc' = [tpPc EXCEPT ![Owner] = "wpred"]
  /\ UNCHANGED <<tpQueue, mTaskTotal, mWaiting, mRunning, tpCur, tpJob, tpReturned, tpDtor, tpEarly,
                 tpFrame>>

\* waitEmpty, lines 155-157: with mTaskTotal == 0 it clears mWaiting and
\* returns, else it goes into the wait
TpWaitEmptyPred ==
  /\ tpPc[Owner] = "wpred"
  /\ IF mTaskTotal = 0
       THEN /\ mWaiting' = FALSE
            /\ mTaskMt' = NoThread
            /\ tpPc' = [tpPc EXCEPT ![Owner] = IF tpDtor THEN "stop" ELSE "idle"]
            /\ tpEarly' = (tpEarly \/ \E j \in tpReturned : tpJob[j] # "done")
       ELSE /\ tpPc' = [tpPc EXCEPT ![Owner] = "wblock"]
            /\ UNCHANGED <<mWaiting, mTaskMt, tpEarly>>
  /\ UNCHANGED <<tpQueue, mTaskTotal, mRunning, tpCur, tpJob, tpReturned, tpDtor,
                 tpFrame>>

\* waitEmpty, line 155: wait() unlocks mTaskMt and blocks on mTaskDoneCV
TpWaitEmptyBlock ==
  /\ tpPc[Owner] = "wblock"
  /\ mTaskMt' = NoThread
  /\ tpPc' = [tpPc EXCEPT ![Owner] = "wwaiting"]
  /\ UNCHANGED <<tpQueue, mTaskTotal, mWaiting, mRunning, tpCur, tpJob, tpReturned, tpDtor, tpEarly,
                 tpFrame>>

\* destroy_threads, line 170: mRunning = false, without mTaskMt
TpStop ==
  /\ tpPc[Owner] = "stop"
  /\ mRunning' = FALSE
  /\ tpPc' = [tpPc EXCEPT ![Owner] = "notify"]
  /\ UNCHANGED <<tpQueue, mTaskTotal, mTaskMt, mWaiting, tpCur, tpJob, tpReturned, tpDtor, tpEarly,
                 tpFrame>>

\* destroy_threads, line 171: notify_all wakes the workers that are waiting
TpNotifyAll ==
  /\ tpPc[Owner] = "notify"
  /\ tpPc' = [th \in TpThreads |->
                IF th = Owner THEN "join"
                ELSE IF th \in TpWaiting THEN "wake" ELSE tpPc[th]]
  /\ UNCHANGED <<tpQueue, mTaskTotal, mTaskMt, mWaiting, mRunning, tpCur, tpJob, tpReturned, tpDtor, tpEarly,
                 tpFrame>>

\* destroy_threads, lines 172-174: every join has returned
TpJoin ==
  /\ tpPc[Owner] = "join"
  /\ \A w \in Workers : tpPc[w] = "exited"
  /\ tpPc' = [tpPc EXCEPT ![Owner] = "joined"]
  /\ UNCHANGED <<tpQueue, mTaskTotal, mTaskMt, mWaiting, mRunning, tpCur, tpJob, tpReturned, tpDtor, tpEarly,
                 tpFrame>>

\* a thread passing handles to the pool, its workers, and its owner calling
\* waitEmpty or destroying it
NextTPool ==
  \/ TpExecutePush
  \/ TpExecuteCount
  \/ TpExecuteNotify
  \/ \E w \in Workers : TpWorkerLoop(w)
  \/ \E w \in Workers : TpWorkerLock(w)
  \/ \E w \in Workers : TpWorkerPred(w)
  \/ \E w \in Workers : TpWorkerBlock(w)
  \/ \E th \in TpThreads : TpSpurious(th)
  \/ \E w \in Workers : TpWorkerAfter(w)
  \/ \E w \in Workers : TpWorkerRun(w)
  \/ \E w \in Workers : TpWorkerRelock(w)
  \/ \E w \in Workers : TpWorkerDone(w)
  \/ \E dtor \in BOOLEAN : TpWaitEmptyBegin(dtor)
  \/ TpWaitEmptyLock
  \/ TpWaitEmptyPred
  \/ TpWaitEmptyBlock
  \/ TpStop
  \/ TpNotifyAll
  \/ TpJoin

SpecTPool == Init /\ [][NextTPool]_vars

\* the pool under a scheduler that runs every thread: each thread takes its
\* next step, each resumed handle returns, and a thread that keeps finding
\* mTaskMt free gets it; no wait is promised a spurious wakeup
TPoolFairness ==
  /\ WF_vars(TpExecuteCount) /\ WF_vars(TpExecuteNotify)
  /\ SF_vars(TpWaitEmptyLock) /\ WF_vars(TpWaitEmptyPred) /\ WF_vars(TpWaitEmptyBlock)
  /\ WF_vars(TpStop) /\ WF_vars(TpNotifyAll) /\ WF_vars(TpJoin)
  /\ \A w \in Workers :
       /\ WF_vars(TpWorkerLoop(w)) /\ WF_vars(TpWorkerPred(w)) /\ WF_vars(TpWorkerBlock(w))
       /\ WF_vars(TpWorkerAfter(w)) /\ WF_vars(TpWorkerRun(w)) /\ WF_vars(TpWorkerDone(w))
       /\ SF_vars(TpWorkerLock(w)) /\ SF_vars(TpWorkerRelock(w))

SpecTPoolLive == SpecTPool /\ TPoolFairness

\* ================================================================== claims
InReact(t) == rpc[t] \in {"locked", "waiting"}
TimerIds == {e.key : e \in issued}
IsTimer(x) == x.src = "timer"

\* C1: setReadable/setWritable returns true exactly when the slot was empty
\* and then installs the handle; on an occupied slot it returns false and
\* changes nothing; no step ever replaces an installed handle by another one
\* (a slot only goes from a handle to empty, by a take).
C1_AtMostOneParker ==
  [][/\ \A k \in Keys, d \in Dirs :
          slots[k][d] # NULL => slots'[k][d] \in {slots[k][d], NULL}
     /\ ret'.op = "set" =>
          /\ ret'.val = IsEmpty(slots, ret'.key, ret'.dir)
          /\ ret'.val => slots' = [slots EXCEPT ![ret'.key][ret'.dir] = ret'.h]
          /\ ~ret'.val => slots' = slots]_vars

\* C1 witness: an install was refused while another handle was parked
C1_Witness ==
  /\ ret.op = "set" /\ ~ret.val
  /\ slots[ret.key][ret.dir] \notin {NULL, ret.h}
  /\ mTicker > 0

\* C2: when the poller reports readiness for a direction whose parker is
\* installed and registered, the react that gets the event takes the handle
\* out of the slot and hands it to the executor.
C2_NoLostWake ==
  [][(mEvents = <<>> /\ mEvents' # <<>>) =>
       \A i \in DOMAIN mEvents' :
         LET ev == mEvents'[i]
             flagged == {d \in Dirs : IF d = "read" THEN ev.readable ELSE ev.writable}
         IN  \A d \in flagged :
               (slots[ev.key][d] # NULL /\ d \in interest[ev.key]) =>
                 /\ slots'[ev.key][d] = NULL
                 /\ \E j \in DOMAIN execBatch' :
                      /\ execBatch'[j].h = slots[ev.key][d]
                      /\ execBatch'[j].src = d
                      /\ execBatch'[j].key = ev.key]_vars

\* C3: a timer is handed to the executor at most once, and never before its
\* expiry.
C3_TimerHandedOnce ==
  \A e \in issued :
    /\ timerHanded[e.key] <= 1
    /\ timerHanded[e.key] >= 1 => e.when <= clock + 1

C5_TimerOrder ==
  \A i \in DOMAIN execBatch, j \in DOMAIN execBatch :
    (i < j /\ IsTimer(execBatch[i]) /\ IsTimer(execBatch[j])) =>
      ~KeyLess(execBatch[j], execBatch[i])

\* C10: at most one thread is inside react or holds a ReactorLock, that thread
\* owns mEventLock, and tryLock returns none exactly when the mutex is held.
C10_OneThreadInReact ==
  /\ Cardinality({t \in Threads : InReact(t)}) <= 1
  /\ \A t \in Threads : InReact(t) <=> mEventLock = t
  /\ ret.op = "tryLock" =>
       IF ret.val THEN mEventLock = ret.t ELSE mEventLock \notin {NoThread, ret.t}

\* C10 witness: tryLock was refused while the other thread is in poller.wait
C10_Witness ==
  /\ ret.op = "tryLock" /\ ~ret.val
  /\ \E t \in Threads : rpc[t] = "waiting" /\ t # ret.t

\* C9: when poller.wait fails with EINTR, react returns success with an empty
\* event buffer, passes every handle it had collected to the executor, and
\* leaves every parking slot, the timer map and the op queue as they were.
C9_EintrLosesNothing ==
  [][(ret'.op = "react" /\ ret'.wait = "eintr" /\ rpc' # rpc) =>
       /\ ret'.val = "ok"
       /\ mEvents' = <<>>
       /\ execBatch' = handles
       /\ slots' = slots
       /\ interest' = interest
       /\ mTimers' = mTimers
       /\ mTimerOps' = mTimerOps]_vars

\* C9 witness: an interrupted react handed over a ready timer while a parker
\* was installed and another timer was still pending
C9_Witness ==
  /\ ret.op = "react" /\ ret.wait = "eintr"
  /\ \E i \in DOMAIN execBatch : IsTimer(execBatch[i])
  /\ \E k \in Keys : slots[k]["read"] # NULL /\ "read" \in interest[k]
  /\ \E e \in mTimers : e.when > clock + 1

\* C6: block returns only in a state where the result of the top-level task
\* has been delivered, the spawn count is 0, every spawned task has run to its
\* end, and no handle remains queued for execution in the pool.
C6_BlockDrained ==
  bpc = "returned" =>
    /\ promiseSet
    /\ mSpawnCount = 0
    /\ \A x \in Tasks : tst[x] \in {"new", "done"}
    /\ mTasks = <<>>

\* C7: a react of the drive loop never sits in poller.wait without a timeout
\* and without a notify to come while it holds the handle of a timer that has
\* already expired: such a wait never ends and block never returns.
C7_NoWaitOverExpiredTimer ==
  ~ /\ bpc = "inreact" /\ rpc[Main] = "waiting" /\ ~crashed
    /\ waitTimeout = NULLOPT /\ ~notified
    /\ \E i \in 1..Len(handles) : IsTimer(handles[i]) /\ handles[i].when <= clock + 1
    /\ mTasks = <<>>
    /\ \A w \in Workers : wpc[w] = "idle"

\* C8: once poller.wait has failed with an error other than EINTR, the drive
\* loop of block stops calling react: it is never again inside poller.wait.
C8_WaitErrorFatal ==
  waitFailed => rpc[Main] # "waiting"

\* C11: the fn of a blockSpawn runs exactly once, the awaiting task is resumed
\* from it at most once and only after fn has run, and whenever the task has
\* been resumed the Awaiter's result slot holds fn's value.
C11_BlockSpawnResult ==
  \A x \in Tasks :
    /\ fnRuns[x] <= 1
    /\ resumes[x] <= fnRuns[x]
    /\ resumes[x] >= 1 => result[x]

\* C12: the run queue and the spawn counter of the InlineExecutor are only
\* ever accessed by the thread that runs block.
C12_InlineSingleThread ==
  touched \subseteq {Main}

\* C17: while react is passing its handles to InlineExecutor::execute no
\* coroutine is running on the thread of block: execute only queues them.
C17_ExecuteDefers ==
  bpc = "executing" => run[Main] = NULL

C14_EffectiveWait ==
  [][\A t \in Threads :
       (rpc[t] = "locked" /\ rpc'[t] = "waiting") =>
         LET now     == clock + 1
             ready   == {e \in mTimers' : e.when <= now}
             pending == mTimers' \ ready
             first   == CHOOSE e \in pending : \A y \in pending : e.when <= y.when
             next    == IF first.when - now < 0 THEN 0 ELSE first.when - now
         IN  \E timeout \in Timeouts :
               waitTimeout' =
                 IF ready # {} THEN 0
                 ELSE IF pending = {} THEN timeout
                 ELSE IF timeout = NULLOPT THEN next
                 ELSE Min(timeout, next)]_vars

\* C15: when poller.wait returns 0 events after a wait that was not 0 (a
\* positive timeout or no timeout), react runs processTimers again: the op
\* queue is drained and every timer expired by now is in the vector passed to
\* the executor; after a wait of 0 it does not: map and queue stay as they are.
C15_RerunTimers ==
  [][(ret'.op = "react" /\ ret'.wait = "zero") =>
       IF waitTimeout # 0
         THEN /\ mTimerOps' = <<>>
              /\ \A e \in ProcessTimeOps(mTimers, mTimerOps) :
                   e.when <= clock + 1 =>
                     \E i \in DOMAIN execBatch' :
                       IsTimer(execBatch'[i]) /\ execBatch'[i].key = e.key
         ELSE /\ mTimers' = mTimers
              /\ mTimerOps' = mTimerOps
              /\ execBatch' = handles]_vars

\* C16: the vector one react passes to the executor holds each coroutine
\* handle at most once.
C16_NoDuplicateHandle ==
  \A i \in DOMAIN execBatch, j \in DOMAIN execBatch :
    i # j => execBatch[i].h # execBatch[j].h

\* the entries of a handles vector that were taken from the slots of key k
IoOf(hs, k) == {j \in DOMAIN hs : ~IsTimer(hs[j]) /\ hs[j].key = k}

\* C18 (as the code has it): for each poller event react looks the Source up by
\* the event's key and takes from exactly one slot: the write slot when the
\* event is writable, otherwise the read slot when it is readable; what
\* takeHandle returns is the one entry the event adds to the vector.  An event
\* whose key is no longer in the slab adds nothing, changes no Source, and
\* react still returns success.
C18_EventParker ==
  [][(ret'.op = "react" /\ ret'.wait = "events") =>
       /\ ret'.val = "ok"
       /\ \A i \in DOMAIN mEvents' :
            LET ev == mEvents'[i]
                k  == ev.key
                d  == IF ev.writable THEN "write" ELSE "read"
            IN  IF k \notin mSources \/ (~ev.writable /\ ~ev.readable)
                  THEN slots'[k] = slots[k] /\ IoOf(execBatch', k) = {}
                  ELSE /\ slots'[k] = [slots[k] EXCEPT ![d] = NULL]
                       /\ \E j \in DOMAIN execBatch' :
                            /\ IoOf(execBatch', k) = {j}
                            /\ execBatch'[j].h = slots[k][d]
                            /\ execBatch'[j].src = d]_vars

\* C18 (as stated): the write parker is taken when both parkers are installed
\* and the event is writable, otherwise the read parker.
C18_Original ==
  [][(ret'.op = "react" /\ ret'.wait = "events") =>
       \A i \in DOMAIN mEvents' :
         LET ev == mEvents'[i]
             k  == ev.key
             d  == IF slots[k].read # NULL /\ slots[k].write # NULL /\ ev.writable
                     THEN "write" ELSE "read"
         IN  k \in mSources =>
               /\ slots'[k] = [slots[k] EXCEPT ![d] = NULL]
               /\ \A j \in IoOf(execBatch', k) : execBatch'[j].src = d]_vars

\* C18 witness: a react has taken the write parker on a writable event while
\* no read parker was installed
C18_Witness ==
  /\ ret.op = "react" /\ ret.wait = "events"
  /\ \E i \in DOMAIN mEvents :
       /\ mEvents[i].writable
       /\ mEvents[i].key \in mSources
       /\ slots[mEvents[i].key].read = NULL
       /\ \E j \in IoOf(execBatch, mEvents[i].key) :
            execBatch[j].src = "write" /\ execBatch[j].h # NULL

\* C19: every handle in the vector a react passes to the executor is non-null.
C19_NoNullHandle ==
  \A i \in DOMAIN execBatch : execBatch[i].h # NULL

\* C20: for every registered Source, whenever no install is waiting for its
\* updateIo and no thread is inside react, the interest mask registered with
\* the poller has readable set iff the read slot holds a parker and writable
\* set iff the write slot holds one.
C20_MaskIsOccupancy ==
  (\A t \in Threads : rpc[t] \notin {"waiting", "polled"}) =>
    \A k \in mSources : ioSynced[k] => interest[k] = GetEvent(k)

\* the place of a mutex in the order mEventLock, mSourceLock, stateLock
LockRank(l) == CASE l = EventLock -> 1 [] l = SourceLock -> 2 [] OTHER -> 3

\* C21: a thread that locks a mutex of the Reactor holds only mutexes that come
\* before it in the order event lock, source lock, state lock; it holds the
\* timer lock neither when it locks another mutex nor when it calls
\* poller.wait; and whenever threads are inside react, insertIo, removeIo,
\* updateIo, setReadable/setWritable, insertTimer or removeTimer, one of them
\* can take its next step (no deadlock).
C21_LockOrder ==
  /\ \A t \in Threads :
       lkScript[t] # <<>> =>
         LET st == Head(lkScript[t])
         IN  /\ st.a = "lock" =>
                  /\ TimerLock \notin HeldBy(t)
                  /\ st.l # TimerLock =>
                       \A h \in HeldBy(t) : LockRank(h) < LockRank(st.l)
             /\ (st.a = "call" /\ st.c = "wait") => TimerLock \notin HeldBy(t)
  /\ (\E t \in Threads : lkScript[t] # <<>>) =>
       \E t \in Threads : lkScript[t] # <<>> /\ ~LockBlocked(t)

\* C21 witness: one thread is in react's event loop holding the event lock, the
\* source lock and a state lock while another thread waits for a mutex
C21_Witness ==
  \E t \in Threads, u \in Threads, k \in Keys :
    /\ HeldBy(t) = {EventLock, SourceLock, StateLock(k)}
    /\ u # t /\ LockBlocked(u)

\* C22: in the blocking pool, whenever mQueueMt is free,
\* 0 <= idle count <= thread count <= thread limit; a step that creates a
\* worker is taken with queue size > 5 * idle count and thread count < limit
\* and adds one to each counter; a step that retires a worker is the return
\* of a wait_for that timed out, with the queue empty, and takes one from
\* each counter.
C22_PoolCounters ==
  /\ [](mQueueMt = BpNone =>
         (0 <= mIdleCount /\ mIdleCount <= mThreadCount /\ mThreadCount <= BpLimit))
  /\ [][/\ mThreadCount' > mThreadCount =>
             /\ Len(bpQueue) > GrowFactor * mIdleCount
             /\ mThreadCount < BpLimit
             /\ mThreadCount' = mThreadCount + 1
             /\ mIdleCount' = mIdleCount + 1
        /\ mThreadCount' < mThreadCount =>
             /\ \E w \in BpWorkers :
                  bpPc[w] = "woken" /\ bpTimedOut[w] /\ bpPc'[w] = "none"
             /\ bpQueue = <<>>
             /\ mThreadCount' = mThreadCount - 1
             /\ mIdleCount' = mIdleCount - 1]_vars

\* C22 witness: every handle has been run and every worker that was created
\* for them has retired
C22_Witness ==
  /\ mQueueMt = BpNone
  /\ mThreadCount = 0 /\ mIdleCount = 0
  /\ \A j \in Jobs : bpJob[j] = "done"

\* C23: every handle passed to BlockingThreadPool::execute is popped exactly
\* once and its resume returns, eventually, whatever the pool threads were
\* doing when it was pushed.
C23_EveryHandleRuns ==
  /\ \A j \in Jobs : (bpJob[j] = "queued") ~> (bpJob[j] = "done")
  /\ [](\A j \in Jobs : bpPops[j] <= 1 /\ (bpJob[j] = "done" => bpPops[j] = 1))

\* C23 witness: all handles have run, one of them pushed while a worker was
\* between the timeout of its wait_for and its relock, the pool at its limit
C23_Witness ==
  /\ bpRaced
  /\ mThreadCount = BpLimit
  /\ \A j \in Jobs : bpJob[j] = "done"

\* C24: in the worker pool the outstanding-task counter is never below zero
\* and always equals the number of queued plus running handles, and a
\* waitEmpty returns only when every handle whose execute call had returned
\* has finished running.
C24_TaskCounter ==
  /\ mTaskTotal >= 0
  /\ mTaskTotal = TpOutstanding
  /\ ~tpEarly

\* C25: once the destructor of the worker pool has flipped mRunning and
\* broadcast, every worker leaves its loop and the joins complete.
C25_ShutdownTerminates ==
  (tpPc[Owner] = "join") ~> (tpPc[Owner] = "joined")

====
